---- MODULE Spec2Model ----
(***************************************************************************)
(* A model of libopkg/pkg.c: package verification (pkg_verify), the        *)
(* Debian-style version algebra (order, verrevcmp, pkg_compare_versions,   *)
(* pkg_version_satisfied), the merge of two package records (pkg_merge),   *)
(* the file lists and the file-ownership index (pkg_write_filelist,        *)
(* pkg_info_preinstall_check) and the text form of the status triple.      *)
(***************************************************************************)
EXTENDS Integers, Sequences, FiniteSets, TLC

(***************************************************************************)
(* Bounds of the model.                                                    *)
(***************************************************************************)
\* largest file size / advertised Size considered
MaxSize == 2
\* longest upstream version string enumerated exhaustively
MaxLen == 2
\* largest epoch considered
MaxEpoch == 1
\* longest sequence of pkg_merge calls followed
MaxMerges == 2
\* most lines in a .list file read at startup
MaxLines == 2

NULL == "NULL"
Absent == "absent"

VARIABLES
    \* ---- pkg_verify ----
    have_sha256,    \* build configuration: HAVE_SHA256 defined or not
    opkg_config,    \* [force_checksum, check_pkg_signature]
    vpkg,           \* the package being verified: [size, sha256sum, md5sum]
    local_file,     \* the file at pkg->local_filename: NoFile or one of Files
    sig_file,       \* the file <local_filename>.sig: Absent, "good" or "bad"
    sig_name,       \* local_sig_filename of the last call: NULL or "sig"
    calls,          \* the checks and library calls the last pkg_verify made, in order
    ret,            \* the value the last pkg_verify returned
    vpc,            \* "idle" before a call, "returned" after it
    \* ---- version algebra ----
    pkgA,           \* the package compared: [epoch, version, revision, force_reinstall]
    pkgB,           \* the package it is compared with
    pkgC,           \* a third package, for comparisons over triples
    cop,            \* the operator string last given to pkg_version_satisfied
    cres,           \* the value the last comparison returned
    tres,           \* the values of the comparisons A/B, B/C, A/C
    cpc,            \* "idle" before a call, else the function that returned
    \* ---- pkg_merge ----
    pk,             \* the two records of one package, by address
    pre,            \* the two records as they were before the last pkg_merge
    hist,           \* the pkg_merge calls made so far: <<oldpkg, newpkg>> addresses
    verbose_status_file,    \* opkg_config->verbose_status_file
    \* ---- file lists and the file-ownership index ----
    fpkgs,          \* the packages in the hash: the fields the file functions use
    list_files,     \* the file <info_dir>/<name>.list of each package
    data_names,     \* the file names in each package's data archive
    file_hash,      \* opkg_config->file_hash: path -> owning package
    fhow,           \* how pkg_get_installed_files fared for each package
    fsubject,       \* the package pkg_write_filelist was called for, 0 if none
    fret,           \* the value the last file function returned
    fpc,            \* "idle", "checked", "crashed" or "written"
    \* ---- status line ----
    spkg,           \* the package printed: [state_want, state_flag, state_status]
    status_words,   \* the three words of its Status line
    sparsed,        \* the status triple parsed from the words
    spc,            \* "idle", "formatted" or "parsed"
    \* ---- pkg_run_script ----
    rcfg,           \* opkg_config: [noaction, offline_root, force_postinstall]
    rpkg,           \* the package: [state_status, dest, tmp_unpack_dir]
    rdisk,          \* where the script file exists: [info, tmp]
    rret,           \* the value the last pkg_run_script returned
    rexec,          \* the commands pkg_run_script gave to xsystem
    rpc,            \* "idle" before the call, "returned" after it
    \* ---- temporary files ----
    tfn,            \* the function called: "pkg_init_from_file" or "pkg_get_installed_files"
    tpkg,           \* the package pkg_get_installed_files is called on
    tnames,         \* the names in the data archive of that package
    tcalls,         \* the calls made on the temporary file and its handles
    tret,           \* TRUE when the call reported success
    tpc,            \* "idle", "returned", or "crashed" (the process died)
    \* ---- the cached file list of one package ----
    gpkg,           \* the package pkg_get_installed_files and pkg_free_installed_files work on
    gnames,         \* the names in its data archive
    glist,          \* its .list file
    gid,            \* which list pkg->installed_files points to: 0 for NULL, else the number of the call that allocated it
    gtrace,         \* the calls so far: [op, ok, id, cnt]
    gderef,         \* TRUE once a field of a null pkg->dest was read
    gpc,            \* "running", or "crashed" (the process died)
    \* ---- pkg_write_changed_filelists ----
    noaction,       \* opkg_config->noaction
    wopen,          \* for each package, whether its .list file can be opened for writing
    wpre            \* the packages and .list files before the call

verifyVars == <<have_sha256, opkg_config, vpkg, local_file, sig_file, sig_name,
                calls, ret, vpc>>

cmpVars == <<pkgA, pkgB, pkgC, cop, cres, tres, cpc>>

mergeVars == <<pk, pre, hist, verbose_status_file>>

fileVars == <<fpkgs, list_files, data_names, file_hash, fhow, fsubject, fret, fpc>>

statusVars == <<spkg, status_words, sparsed, spc>>

runVars == <<rcfg, rpkg, rdisk, rret, rexec, rpc>>

tmpVars == <<tfn, tpkg, tnames, tcalls, tret, tpc>>

refVars == <<gpkg, gnames, glist, gid, gtrace, gderef, gpc>>

saveVars == <<noaction, wopen, wpre>>

vars == <<verifyVars, cmpVars, mergeVars, fileVars, statusVars, runVars, tmpVars, refVars, saveVars>>

(***************************************************************************)
(* pkg_verify                                                              *)
(***************************************************************************)
\* digest values: two suffice for a match and a mismatch
Digests == {"d1", "d2"}
Sizes == 0..MaxSize

Configs == [force_checksum : BOOLEAN, check_pkg_signature : BOOLEAN]
Pkgs == [size : Sizes, sha256sum : {NULL} \cup Digests, md5sum : {NULL} \cup Digests]
\* A file at pkg->local_filename, and the state of that path when no file is there.
Files == [exists : {TRUE}, size : Sizes, sha256 : Digests, md5 : Digests]
NoFile == [exists |-> FALSE, size |-> 0, sha256 |-> "d1", md5 |-> "d1"]

\* One entry of the call log: what was done and whether it succeeded.
Call(op, ok) == [op |-> op, ok |-> ok]

\* The context pkg_verify threads through its steps: the two files, the
\* local variables err and local_sig_filename, and the call log.
Ctx(f, s, n, c) == [file |-> f, sig |-> s, name |-> n, log |-> c]

\* What a call of pkg_verify leaves behind.
Outcome(r, x) == [ret |-> r, file |-> x.file, sig |-> x.sig, name |-> x.name,
                  log |-> x.log]

\* stat(2) on the local file: ENOENT exactly when the file is absent; on a
\* file that is present stat may still fail for another reason (EACCES, EIO).
StatResults(f) == IF ~f.exists THEN {"ENOENT"} ELSE {"ok", "EOTHER"}

\* opkg_verify_sha256sum / opkg_verify_md5sum: 0 when the digest of the file
\* equals the expected digest, non-zero otherwise.
opkg_verify_sha256sum(f, expected) == IF f.sha256 = expected THEN 0 ELSE -1
opkg_verify_md5sum(f, expected) == IF f.md5 = expected THEN 0 ELSE -1

\* opkg_verify_signature: 0 when the signature file exists and matches.
opkg_verify_signature(s) == IF s = "good" THEN 0 ELSE -1

\* pkg_download_signature: either fails (NULL, the signature file untouched)
\* or returns the name of the signature file, which it has left in any state.
SigDownloads(s) == {[name |-> NULL, sig |-> s]}
                   \cup {[name |-> "sig", sig |-> t] : t \in {Absent, "good", "bad"}}

\* unlink(2) on the local file and on the signature file: the file is gone.
unlink(f) == NoFile
unlink_sig(s) == Absent

\* file_exists()
file_exists(s) == s # Absent

\* The fail: label (pkg.c 1587-1607).
VerifyFail_KeepSig(cfg, err, x) ==
    IF ~cfg.force_checksum
    THEN Outcome(err, Ctx(unlink(x.file), x.sig, x.name,
                          Append(x.log, Call("unlink_pkg", TRUE))))
    ELSE Outcome(0, x)

VerifyFail(cfg, err, x) ==
    IF ~cfg.force_checksum
    THEN LET x1 == Ctx(unlink(x.file), x.sig, x.name,
                       Append(x.log, Call("unlink_pkg", TRUE)))
         IN  IF x1.name # NULL /\ file_exists(x1.sig)
             THEN Outcome(err, Ctx(x1.file, unlink_sig(x1.sig), x1.name,
                                   Append(x1.log, Call("unlink_sig", TRUE))))
             ELSE Outcome(err, x1)
    ELSE Outcome(0, x)

\* The signature step (pkg.c 1570-1585); dl is what pkg_download_signature does.
VerifySignature(cfg, x, dl) ==
    IF cfg.check_pkg_signature
    THEN LET x1 == Ctx(x.file, dl.sig, dl.name,
                       Append(x.log, Call("download_sig", dl.name # NULL)))
         IN  IF x1.name = NULL
             THEN VerifyFail(cfg, -1, x1)
             ELSE LET err == opkg_verify_signature(x1.sig)
                      x2 == Ctx(x1.file, x1.sig, x1.name,
                                Append(x1.log, Call("verify_sig", err = 0)))
                  IN  IF err # 0 THEN VerifyFail(cfg, err, x2)
                      ELSE Outcome(0, x2)
    ELSE Outcome(0, x)

\* The checksum step (pkg.c 1552-1568).
VerifyChecksum_Md5First(sha, cfg, p, x, dl) ==
    IF p.md5sum # NULL
    THEN LET err == opkg_verify_md5sum(x.file, p.md5sum)
             x1 == Ctx(x.file, x.sig, x.name, Append(x.log, Call("md5", err = 0)))
         IN  IF err # 0 THEN VerifyFail(cfg, err, x1)
             ELSE VerifySignature(cfg, x1, dl)
    ELSE IF sha /\ p.sha256sum # NULL
    THEN LET err == opkg_verify_sha256sum(x.file, p.sha256sum)
             x1 == Ctx(x.file, x.sig, x.name, Append(x.log, Call("sha256", err = 0)))
         IN  IF err # 0 THEN VerifyFail(cfg, err, x1)
             ELSE VerifySignature(cfg, x1, dl)
    ELSE IF ~cfg.force_checksum
    THEN Outcome(-1, Ctx(x.file, x.sig, x.name, Append(x.log, Call("checksum", FALSE))))
    ELSE VerifySignature(cfg, x, dl)

VerifyChecksum(sha, cfg, p, x, dl) ==
    IF sha /\ p.sha256sum # NULL
    THEN LET err == opkg_verify_sha256sum(x.file, p.sha256sum)
             x1 == Ctx(x.file, x.sig, x.name, Append(x.log, Call("sha256", err = 0)))
         IN  IF err # 0 THEN VerifyFail(cfg, err, x1)
             ELSE VerifySignature(cfg, x1, dl)
    ELSE IF p.md5sum # NULL
    THEN LET err == opkg_verify_md5sum(x.file, p.md5sum)
             x1 == Ctx(x.file, x.sig, x.name, Append(x.log, Call("md5", err = 0)))
         IN  IF err # 0 THEN VerifyFail(cfg, err, x1)
             ELSE VerifySignature(cfg, x1, dl)
    ELSE IF ~cfg.force_checksum
    THEN Outcome(-1, Ctx(x.file, x.sig, x.name, Append(x.log, Call("checksum", FALSE))))
    ELSE VerifySignature(cfg, x, dl)

\* The size check (pkg.c 1544-1550).
VerifySize_NoGate(sha, cfg, p, x, dl) ==
    LET ok == ~(x.file.size < 1 \/ x.file.size # p.size)
        x1 == Ctx(x.file, x.sig, x.name, Append(x.log, Call("size", ok)))
    IN  VerifyChecksum(sha, cfg, p, x1, dl)

VerifySize(sha, cfg, p, x, dl) ==
    LET ok == ~(x.file.size < 1 \/ x.file.size # p.size)
        x1 == Ctx(x.file, x.sig, x.name, Append(x.log, Call("size", ok)))
    IN  IF ~ok THEN VerifyFail(cfg, -1, x1)
        ELSE VerifyChecksum(sha, cfg, p, x1, dl)

\* pkg_verify (pkg.c 1522-1608); st is the result of stat, dl what
\* pkg_download_signature does if it is called.
pkg_verify(sha, cfg, p, f, s, st, dl) ==
    LET x0 == Ctx(f, s, NULL, <<Call("stat", st = "ok")>>)
    IN  IF st = "ENOENT" THEN Outcome(1, x0)
        ELSE IF st # "ok" THEN VerifyFail(cfg, -1, x0)
        ELSE VerifySize(sha, cfg, p, x0, dl)

InitVerify ==
    /\ have_sha256 \in BOOLEAN
    /\ opkg_config \in Configs
    /\ vpkg \in Pkgs
    /\ local_file \in {NoFile} \cup Files
    /\ sig_file \in {Absent, "good", "bad"}
    /\ sig_name = NULL
    /\ calls = <<>>
    /\ ret = 0
    /\ vpc = "idle"

\* A call of pkg_verify on the package.
PkgVerify ==
    /\ vpc = "idle"
    /\ \E st \in StatResults(local_file), dl \in SigDownloads(sig_file) :
          LET o == pkg_verify(have_sha256, opkg_config, vpkg, local_file, sig_file,
                              st, dl)
          IN  /\ ret' = o.ret
              /\ local_file' = o.file
              /\ sig_file' = o.sig
              /\ sig_name' = o.name
              /\ calls' = o.log
    /\ vpc' = "returned"
    /\ UNCHANGED <<have_sha256, opkg_config, vpkg>>
    /\ UNCHANGED <<cmpVars, mergeVars, fileVars, statusVars, runVars, tmpVars, refVars, saveVars>>

(***************************************************************************)
(* Properties of pkg_verify                                                *)
(***************************************************************************)
Returned == vpc = "returned"

\* the entries of the call log with the given operation
Made(op) == {i \in DOMAIN calls : calls[i].op = op}
Passed(op) == \E i \in Made(op) : calls[i].ok
Failed(op) == \E i \in Made(op) : ~calls[i].ok

ChecksumOps == {"sha256", "md5", "checksum"}
SignatureOps == {"download_sig", "verify_sig"}

\* No checksum of the package is known to this build of pkg_verify.
NoUsableChecksum ==
    /\ ~(have_sha256 /\ vpkg.sha256sum # NULL)
    /\ vpkg.md5sum = NULL

\* C1 (as claimed): pkg_verify returns 0 only if the local file exists with
\* the advertised size, its checksum verified (or none is known and
\* force-checksum is set) and, with signature checking enabled, its
\* signature verified; in every configuration, force-checksum included.
C1_ReturnsZeroOnlyIfVerified ==
    (Returned /\ ret = 0) =>
        /\ local_file.exists
        /\ local_file.size = vpkg.size
        /\ \/ Passed("sha256")
           \/ Passed("md5")
           \/ (vpkg.sha256sum = NULL /\ vpkg.md5sum = NULL
               /\ opkg_config.force_checksum)
        /\ opkg_config.check_pkg_signature => Passed("verify_sig")

\* C2 (as claimed): a failed pkg_verify without force-checksum has deleted
\* the local file, and the signature file if one was fetched and exists.
C2_FailureDeletes ==
    (Returned /\ ret # 0 /\ ~opkg_config.force_checksum) =>
        /\ ~local_file.exists
        /\ sig_name # NULL => ~file_exists(sig_file)

\* C2 (amended): a pkg_verify that fails the stat, size, checksum-mismatch
\* or signature check without force-checksum has deleted the local file, and
\* the signature file if one was fetched; when it fails because no checksum
\* is known it returns -1 and leaves the local file in place.
C2_FailureDeletesUnlessNoChecksum ==
    (Returned /\ ret # 0 /\ ~opkg_config.force_checksum) =>
        IF Passed("size") /\ NoUsableChecksum
        THEN ret = -1 /\ local_file.exists /\ sig_name = NULL
        ELSE /\ ~local_file.exists
             /\ sig_name # NULL => ~file_exists(sig_file)

\* C2 witness: a signature that was fetched did not verify, and both files
\* are gone.
C2_Witness ==
    /\ Returned /\ ret # 0 /\ ~opkg_config.force_checksum
    /\ Failed("verify_sig") /\ sig_name # NULL
    /\ ~local_file.exists /\ ~file_exists(sig_file)

\* C3: pkg_verify checks size, then checksum, then signature: a checksum is
\* verified only after the size check passed, and the signature is fetched
\* or verified only after the size check passed and no checksum check failed.
C3_OrderedGate ==
    Returned =>
        \A i \in DOMAIN calls :
            /\ calls[i].op = "size" =>
                  \E j \in 1..(i - 1) : calls[j] = Call("stat", TRUE)
            /\ calls[i].op \in ChecksumOps =>
                  /\ \E j \in 1..(i - 1) : calls[j] = Call("size", TRUE)
                  /\ \A j \in 1..(i - 1) : calls[j].op \notin SignatureOps
            /\ calls[i].op \in SignatureOps =>
                  /\ \E j \in 1..(i - 1) : calls[j] = Call("size", TRUE)
                  /\ \A j \in 1..(i - 1) :
                        calls[j].op \in ChecksumOps => calls[j].ok

\* C3 witness: a failed size check after which nothing but the unlink ran.
C3_Witness ==
    /\ Returned /\ Failed("size")
    /\ \A op \in ChecksumOps \cup SignatureOps : Made(op) = {}
    /\ Made("unlink_pkg") # {}

\* C4 (as claimed): a known sha256sum is the checksum verified (md5sum is
\* not consulted), else a known md5sum, else failure unless force-checksum.
C4_Sha256ThenMd5 ==
    (Returned /\ Passed("size")) =>
        IF vpkg.sha256sum # NULL
        THEN Made("sha256") # {} /\ Made("md5") = {}
        ELSE IF vpkg.md5sum # NULL
        THEN Made("md5") # {}
        ELSE ~opkg_config.force_checksum => ret # 0

\* C4 (amended): in a build with HAVE_SHA256 a known sha256sum is the
\* checksum verified (md5sum is not consulted); in a build without it
\* sha256sum is never consulted; otherwise a known md5sum is verified;
\* otherwise verification fails unless force-checksum is set.
C4_Sha256IfBuiltThenMd5 ==
    (Returned /\ Passed("size")) =>
        IF have_sha256 /\ vpkg.sha256sum # NULL
        THEN Made("sha256") # {} /\ Made("md5") = {}
        ELSE /\ Made("sha256") = {}
             /\ IF vpkg.md5sum # NULL
                THEN Made("md5") # {}
                ELSE /\ Made("md5") = {}
                     /\ ~opkg_config.force_checksum => ret = -1

\* C4 witness: both checksums known, sha256 verified and md5 left alone.
C4_Witness ==
    /\ Returned /\ have_sha256
    /\ vpkg.sha256sum # NULL /\ vpkg.md5sum # NULL
    /\ Passed("sha256") /\ Made("md5") = {}


(***************************************************************************)
(* Version algebra: order, verrevcmp, pkg_compare_versions,                *)
(* pkg_version_satisfied.  A C string is the sequence of its character     *)
(* codes (ASCII); the terminating NUL is read as 0.                        *)
(***************************************************************************)
\* the characters version strings are built from: '0' '1' 'a' '~' '+'
Chars == {48, 49, 97, 126, 43}
\* the characters of the strings compared three at a time: '0' '1' 'a' '~'
TripleChars == {48, 49, 97, 126}

\* A char* field: a NULL pointer or a string.
NullStr == [null |-> TRUE, s |-> <<>>]
Str(s) == [null |-> FALSE, s |-> s]

isdigit(x) == x \in 48..57
isalpha(x) == x \in 65..90 \/ x \in 97..122

order_TildeAsPunctuation(x) ==
    IF isdigit(x) THEN 0
    ELSE IF x = 0 THEN 0
    ELSE IF isalpha(x) THEN x
    ELSE 256 + x

order(x) ==
    IF x = 126 THEN -1
    ELSE IF isdigit(x) THEN 0
    ELSE IF x = 0 THEN 0
    ELSE IF isalpha(x) THEN x
    ELSE 256 + x

\* *p for a pointer i characters into s (1-based); 0 at the terminator.
At(s, i) == IF i <= Len(s) THEN s[i] ELSE 0

\* while (*p == '0') p++;
RECURSIVE SkipZeros(_, _)
SkipZeros(s, i) == IF At(s, i) = 48 THEN SkipZeros(s, i + 1) ELSE i

\* The two zero-skipping loops (pkg.c 972-975).
StripZeros_ValOnly(val, ref, i, j) == [i |-> SkipZeros(val, i), j |-> j]

StripZeros(val, ref, i, j) == [i |-> SkipZeros(val, i), j |-> SkipZeros(ref, j)]

\* while (isdigit(*val) && isdigit(*ref)) (pkg.c 976-981).
RECURSIVE DigitRun(_, _, _, _, _)
DigitRun(val, ref, i, j, first_diff) ==
    IF isdigit(At(val, i)) /\ isdigit(At(ref, j))
    THEN DigitRun(val, ref, i + 1, j + 1,
                  IF first_diff = 0 THEN At(val, i) - At(ref, j) ELSE first_diff)
    ELSE [i |-> i, j |-> j, first_diff |-> first_diff]

\* The outer loop of verrevcmp (pkg.c 961-989), from val + (i-1), ref + (j-1).
RECURSIVE VerrevLoop(_, _, _, _)
RECURSIVE NonDigitRun(_, _, _, _)
NonDigitRun(val, ref, i, j) ==
    LET v == At(val, i)
        r == At(ref, j)
    IN  IF (v # 0 /\ ~isdigit(v)) \/ (r # 0 /\ ~isdigit(r))
        THEN LET vc == order(v)
                 rc == order(r)
             IN  IF vc # rc THEN vc - rc
                 ELSE NonDigitRun(val, ref, i + 1, j + 1)
        ELSE LET z == StripZeros(val, ref, i, j)
                 d == DigitRun(val, ref, z.i, z.j, 0)
             IN  IF isdigit(At(val, d.i)) THEN 1
                 ELSE IF isdigit(At(ref, d.j)) THEN -1
                 ELSE IF d.first_diff # 0 THEN d.first_diff
                 ELSE VerrevLoop(val, ref, d.i, d.j)

VerrevLoop(val, ref, i, j) ==
    IF At(val, i) # 0 \/ At(ref, j) # 0
    THEN NonDigitRun(val, ref, i, j)
    ELSE 0

\* verrevcmp (pkg.c 954-990): a NULL argument is read as "".
verrevcmp(val, ref) ==
    VerrevLoop(IF val.null THEN <<>> ELSE val.s,
               IF ref.null THEN <<>> ELSE ref.s, 1, 1)

pkg_compare_versions_no_reinstall_NoRevision(pkg, ref_pkg) ==
    LET r == pkg.epoch - ref_pkg.epoch
    IN  IF r # 0 THEN r
        ELSE verrevcmp(pkg.version, ref_pkg.version)

pkg_compare_versions_no_reinstall(pkg, ref_pkg) ==
    LET r == pkg.epoch - ref_pkg.epoch
    IN  IF r # 0 THEN r
        ELSE LET r2 == verrevcmp(pkg.version, ref_pkg.version)
             IN  IF r2 # 0 THEN r2
                 ELSE verrevcmp(pkg.revision, ref_pkg.revision)

pkg_compare_versions(pkg, ref_pkg) ==
    LET r == pkg_compare_versions_no_reinstall(pkg, ref_pkg)
    IN  IF r # 0 THEN r
        ELSE pkg.force_reinstall - ref_pkg.force_reinstall

\* str_to_constraint: the five operators, anything else is NONE.
str_to_constraint(op) ==
    CASE op = "<<" -> "EARLIER"
      [] op = "<=" -> "EARLIER_EQUAL"
      [] op = "=" -> "EQUAL"
      [] op = ">=" -> "LATER_EQUAL"
      [] op = ">>" -> "LATER"
      [] OTHER -> "NONE"

BoolInt(b) == IF b THEN 1 ELSE 0

pkg_version_satisfied_StrictSwapped(p, q, op) ==
    LET r == pkg_compare_versions(p, q)
        constraint == str_to_constraint(op)
    IN  CASE constraint = "EARLIER_EQUAL" -> BoolInt(r < 0)
          [] constraint = "LATER_EQUAL" -> BoolInt(r > 0)
          [] constraint = "EARLIER" -> BoolInt(r <= 0)
          [] constraint = "LATER" -> BoolInt(r >= 0)
          [] constraint = "EQUAL" -> BoolInt(r = 0)
          [] OTHER -> 0

pkg_version_satisfied_NoneTrue(p, q, op) ==
    LET r == pkg_compare_versions(p, q)
        constraint == str_to_constraint(op)
    IN  CASE constraint = "EARLIER_EQUAL" -> BoolInt(r <= 0)
          [] constraint = "LATER_EQUAL" -> BoolInt(r >= 0)
          [] constraint = "EARLIER" -> BoolInt(r < 0)
          [] constraint = "LATER" -> BoolInt(r > 0)
          [] constraint = "EQUAL" -> BoolInt(r = 0)
          [] OTHER -> 1

\* pkg_version_satisfied (pkg.c 1021-1043): case NONE logs "Unknown
\* operator" and falls out of the switch to return 0.
pkg_version_satisfied(p, q, op) ==
    LET r == pkg_compare_versions(p, q)
        constraint == str_to_constraint(op)
    IN  CASE constraint = "EARLIER_EQUAL" -> BoolInt(r <= 0)
          [] constraint = "LATER_EQUAL" -> BoolInt(r >= 0)
          [] constraint = "EARLIER" -> BoolInt(r < 0)
          [] constraint = "LATER" -> BoolInt(r > 0)
          [] constraint = "EQUAL" -> BoolInt(r = 0)
          [] OTHER -> 0


(***************************************************************************)
(* The packages compared.                                                  *)
(***************************************************************************)
Strings(chars, n) == UNION {[1..k -> chars] : k \in 0..n}

Pkg(e, v, r, f) == [epoch |-> e, version |-> v, revision |-> r, force_reinstall |-> f]

\* pkg_init (pkg.c 84-87): epoch 0, no revision, force_reinstall 0; the
\* parser always sets a version.
UpstreamOnly(chars) == {Pkg(0, Str(s), NullStr, 0) : s \in Strings(chars, MaxLen)}

\* Packages that differ in epoch, revision and force_reinstall: versions
\* "1" and "01", revisions NULL, "", "1" and "a".
FieldSamples(flags) ==
    {Pkg(e, Str(v), r, f) :
        e \in 0..MaxEpoch, v \in {<<49>>, <<48, 49>>},
        r \in {NullStr, Str(<<>>), Str(<<49>>), Str(<<97>>)}, f \in flags}

ComparedPkgs == UpstreamOnly(Chars) \cup FieldSamples({0, 1})
TriplePkgs == UpstreamOnly(TripleChars) \cup FieldSamples({0})

\* The operator strings given to pkg_version_satisfied: the five operators
\* and two strings that are none of them.
Operators == {"<<", "<=", "=", ">=", ">>"}
OpStrings == Operators \cup {"", "!="}

NoPkg == Pkg(0, Str(<<>>), NullStr, 0)

IdleVerify ==
    /\ have_sha256 = FALSE
    /\ opkg_config = [force_checksum |-> FALSE, check_pkg_signature |-> FALSE]
    /\ vpkg = [size |-> 0, sha256sum |-> NULL, md5sum |-> NULL]
    /\ local_file = NoFile
    /\ sig_file = Absent
    /\ sig_name = NULL
    /\ calls = <<>>
    /\ ret = 0
    /\ vpc = "idle"

IdleCmp ==
    /\ pkgA = NoPkg
    /\ pkgB = NoPkg
    /\ pkgC = NoPkg
    /\ cop = ""
    /\ cres = 0
    /\ tres = <<0, 0, 0>>
    /\ cpc = "idle"

InitCmp ==
    /\ pkgA \in ComparedPkgs
    /\ pkgB \in ComparedPkgs
    /\ pkgC = NoPkg
    /\ cop = ""
    /\ cres = 0
    /\ tres = <<0, 0, 0>>
    /\ cpc = "idle"

InitTriple ==
    /\ pkgA \in TriplePkgs
    /\ pkgB \in TriplePkgs
    /\ pkgC \in TriplePkgs
    /\ cop = ""
    /\ cres = 0
    /\ tres = <<0, 0, 0>>
    /\ cpc = "idle"

\* A call of verrevcmp on the two upstream versions.
Verrevcmp ==
    /\ cpc = "idle"
    /\ cres' = verrevcmp(pkgA.version, pkgB.version)
    /\ cpc' = "verrevcmp"
    /\ UNCHANGED <<pkgA, pkgB, pkgC, cop, tres>>
    /\ UNCHANGED <<verifyVars, mergeVars, fileVars, statusVars, runVars, tmpVars, refVars, saveVars>>

\* A call of pkg_compare_versions_no_reinstall(pkgA, pkgB).
CompareNoReinstall ==
    /\ cpc = "idle"
    /\ cres' = pkg_compare_versions_no_reinstall(pkgA, pkgB)
    /\ cpc' = "no_reinstall"
    /\ UNCHANGED <<pkgA, pkgB, pkgC, cop, tres>>
    /\ UNCHANGED <<verifyVars, mergeVars, fileVars, statusVars, runVars, tmpVars, refVars, saveVars>>

\* A call of pkg_compare_versions(pkgA, pkgB).
Compare ==
    /\ cpc = "idle"
    /\ cres' = pkg_compare_versions(pkgA, pkgB)
    /\ cpc' = "compare"
    /\ UNCHANGED <<pkgA, pkgB, pkgC, cop, tres>>
    /\ UNCHANGED <<verifyVars, mergeVars, fileVars, statusVars, runVars, tmpVars, refVars, saveVars>>

\* A call of pkg_version_satisfied(it, ref, op).
VersionSatisfied ==
    /\ cpc = "idle"
    /\ \E op \in OpStrings :
          /\ cop' = op
          /\ cres' = pkg_version_satisfied(pkgA, pkgB, op)
    /\ cpc' = "satisfied"
    /\ UNCHANGED <<pkgA, pkgB, pkgC, tres>>
    /\ UNCHANGED <<verifyVars, mergeVars, fileVars, statusVars, runVars, tmpVars, refVars, saveVars>>

\* The three comparisons a sort makes among three packages.
CompareTriple ==
    /\ cpc = "idle"
    /\ tres' = <<pkg_compare_versions_no_reinstall(pkgA, pkgB),
                 pkg_compare_versions_no_reinstall(pkgB, pkgC),
                 pkg_compare_versions_no_reinstall(pkgA, pkgC)>>
    /\ cpc' = "triple"
    /\ UNCHANGED <<pkgA, pkgB, pkgC, cop, cres>>
    /\ UNCHANGED <<verifyVars, mergeVars, fileVars, statusVars, runVars, tmpVars, refVars, saveVars>>

(***************************************************************************)
(* Properties of the version algebra                                       *)
(***************************************************************************)
Sign(x) == IF x < 0 THEN -1 ELSE IF x > 0 THEN 1 ELSE 0

\* C5: version comparison is antisymmetric: comparing a with b and b with a
\* gives results of opposite signs (both zero, or one negative and the other
\* positive); for verrevcmp and for both package comparisons.
C5_Antisymmetric ==
    /\ cpc = "verrevcmp" => Sign(cres) = -Sign(verrevcmp(pkgB.version, pkgA.version))
    /\ cpc = "no_reinstall" =>
          Sign(cres) = -Sign(pkg_compare_versions_no_reinstall(pkgB, pkgA))
    /\ cpc = "compare" => Sign(cres) = -Sign(pkg_compare_versions(pkgB, pkgA))

\* C5 witness: two packages that differ only in their revision, compared.
C5_Witness ==
    /\ cpc = "no_reinstall" /\ cres < 0
    /\ pkgA.epoch = pkgB.epoch /\ pkgA.version = pkgB.version
    /\ pkgA.revision # pkgB.revision
    /\ pkg_compare_versions_no_reinstall(pkgB, pkgA) > 0

\* C6: version comparison is transitive: a <= b and b <= c imply a <= c, and
\* a = b and b = c imply a = c.
C6_Transitive ==
    cpc = "triple" =>
        /\ (tres[1] <= 0 /\ tres[2] <= 0) => tres[3] <= 0
        /\ (tres[1] = 0 /\ tres[2] = 0) => tres[3] = 0

\* C6 witness: three packages in strictly increasing order, the first two
\* with different upstream versions and the last two with different epochs.
C6_Witness ==
    /\ cpc = "triple"
    /\ tres[1] < 0 /\ tres[2] < 0 /\ tres[3] < 0
    /\ pkgA.epoch = pkgB.epoch /\ pkgA.version # pkgB.version
    /\ pkgB.epoch # pkgC.epoch

\* the rank of a non-digit position: '~', end of string, letter, other
ClassRank(x) ==
    IF x = 126 THEN "tilde"
    ELSE IF x = 0 THEN "end"
    ELSE IF isalpha(x) THEN "letter"
    ELSE "other"

RankBelow == {<<"tilde", "end">>, <<"tilde", "letter">>, <<"tilde", "other">>,
              <<"end", "letter">>, <<"end", "other">>, <<"letter", "other">>}

\* C7: at the first position where two strings differ, if neither has a
\* digit there, verrevcmp ranks '~' below end-of-string, end-of-string below
\* every letter and every letter below every other non-digit character; so
\* 1.0~rc1 < 1.0, 1.0~~ < 1.0~ and 1.0 < 1.0a.
C7_TildeEndLetterOther ==
    /\ cpc = "verrevcmp" =>
          LET v == pkgA.version.s
              r == pkgB.version.s
          IN  \A k \in 1..(Len(v) + 1) :
                 ( /\ k <= Len(r) + 1
                   /\ \A m \in 1..(k - 1) : v[m] = r[m]
                   /\ ~isdigit(At(v, k)) /\ ~isdigit(At(r, k))
                   /\ <<ClassRank(At(v, k)), ClassRank(At(r, k))>> \in RankBelow )
                 => cres < 0
    /\ verrevcmp(Str(<<49, 46, 48, 126, 114, 99, 49>>), Str(<<49, 46, 48>>)) < 0
    /\ verrevcmp(Str(<<49, 46, 48, 126, 126>>), Str(<<49, 46, 48, 126>>)) < 0
    /\ verrevcmp(Str(<<49, 46, 48>>), Str(<<49, 46, 48, 97>>)) < 0

\* C7 witness: "1~" compared with "1".
C7_Witness ==
    /\ cpc = "verrevcmp" /\ cres < 0
    /\ pkgA.version = Str(<<49, 126>>) /\ pkgB.version = Str(<<49>>)

\* the two packages agree in epoch, upstream version and revision
SameVersion(p, q) ==
    /\ p.epoch = q.epoch
    /\ verrevcmp(p.version, q.version) = 0
    /\ verrevcmp(p.revision, q.revision) = 0

\* the sign epoch, then upstream version, then revision decide
LexSign(p, q) ==
    IF p.epoch # q.epoch THEN Sign(p.epoch - q.epoch)
    ELSE IF verrevcmp(p.version, q.version) # 0
    THEN Sign(verrevcmp(p.version, q.version))
    ELSE Sign(verrevcmp(p.revision, q.revision))

\* C8 (as claimed): the comparison used for ordering and for constraints,
\* pkg_compare_versions, is zero exactly when the epochs are equal and
\* verrevcmp is zero on the upstream versions and on the revisions.
C8_ZeroIffSameVersion ==
    cpc = "compare" => (cres = 0 <=> SameVersion(pkgA, pkgB))

\* C8 (amended): pkg_compare_versions_no_reinstall is decided by epoch, then
\* upstream version, then revision and nothing else, and is zero exactly
\* when all three agree; pkg_compare_versions, the comparison used for
\* ordering and for constraints, agrees with it when it is non-zero and
\* otherwise compares the force_reinstall flags, so it is zero exactly when
\* epoch, upstream, revision and force_reinstall all agree.
C8_EpochUpstreamRevisionThenReinstall ==
    /\ cpc = "no_reinstall" =>
          /\ Sign(cres) = LexSign(pkgA, pkgB)
          /\ cres = 0 <=> SameVersion(pkgA, pkgB)
    /\ cpc = "compare" =>
          /\ ~SameVersion(pkgA, pkgB) => Sign(cres) = LexSign(pkgA, pkgB)
          /\ SameVersion(pkgA, pkgB) =>
                cres = pkgA.force_reinstall - pkgB.force_reinstall

\* C8 witness: same epoch, upstream and revision (NULL against ""), and a
\* non-zero result from the force_reinstall flags.
C8_Witness ==
    /\ cpc = "compare" /\ cres # 0
    /\ SameVersion(pkgA, pkgB)
    /\ pkgA.revision.null /\ ~pkgB.revision.null

\* C9: for each of the five operators pkg_version_satisfied(it, ref, op) is
\* true exactly when the comparison of it with ref is negative for <<,
\* non-positive for <=, zero for =, non-negative for >=, positive for >>.
C9_OperatorSemantics ==
    (cpc = "satisfied" /\ cop \in Operators) =>
        LET r == pkg_compare_versions(pkgA, pkgB)
        IN  /\ cres \in {0, 1}
            /\ cres = 1 <=>
                  \/ cop = "<<" /\ r < 0
                  \/ cop = "<=" /\ r <= 0
                  \/ cop = "=" /\ r = 0
                  \/ cop = ">=" /\ r >= 0
                  \/ cop = ">>" /\ r > 0

\* C9 witness: equal versions satisfy <=.
C9_Witness ==
    /\ cpc = "satisfied" /\ cop = "<=" /\ cres = 1
    /\ pkg_compare_versions(pkgA, pkgB) = 0
    /\ pkgA # pkgB

ScalarStrings == {"architecture", "section", "maintainer", "description",
                  "filename", "local_filename", "tmp_unpack_dir", "md5sum",
                  "sha256sum", "priority", "source"}
ScalarPointers == {"src", "dest"}
ScalarInts == {"arch_priority", "size", "installed_size", "essential",
               "auto_installed"}
ScalarFields == ScalarStrings \cup ScalarPointers \cup ScalarInts

\* The value of a scalar field that C's `!field' takes for unset: a null
\* pointer or zero.  The empty string "" is a set value.
Empty(f) == IF f \in ScalarInts THEN 0 ELSE NULL

ScalarValues(f) ==
    IF f \in ScalarInts THEN {0, 1, 2}
    ELSE IF f \in ScalarPointers THEN {NULL, "p1", "p2"}
    ELSE {NULL, "", "u", "v"}

\* The flat dependency array of a record: pre-depends first, then depends,
\* recommends and suggests; each entry remembers the record it was parsed for.
RECURSIVE Repeat(_, _)
Repeat(x, n) == IF n = 0 THEN <<>> ELSE <<x>> \o Repeat(x, n - 1)

DependsArray(tag, p, d, r, s) ==
    Repeat([type |-> "PREDEPEND", of |-> tag], p)
        \o Repeat([type |-> "DEPEND", of |-> tag], d)
        \o Repeat([type |-> "RECOMMEND", of |-> tag], r)
        \o Repeat([type |-> "SUGGEST", of |-> tag], s)

\* pkg_init: every field unset, no providers, no lists.
pkg_init ==
    [addr |-> 0,
     name |-> NULL, epoch |-> 0, version |-> NULL, revision |-> NULL,
     src |-> NULL, dest |-> NULL,
     architecture |-> NULL, arch_priority |-> 0,
     maintainer |-> NULL, section |-> NULL, description |-> NULL,
     state_want |-> "SW_UNKNOWN", state_flag |-> {},
     state_status |-> "SS_NOT_INSTALLED",
     depends_count |-> 0, pre_depends_count |-> 0,
     recommends_count |-> 0, suggests_count |-> 0, depends |-> <<>>,
     conflicts_count |-> 0, conflicts |-> <<>>,
     replaces_count |-> 0, replaces |-> <<>>,
     provides_count |-> 0, provides |-> <<>>,
     filename |-> NULL, local_filename |-> NULL, tmp_unpack_dir |-> NULL,
     md5sum |-> NULL, sha256sum |-> NULL, size |-> 0, installed_size |-> 0,
     priority |-> NULL, source |-> NULL,
     conffiles |-> <<>>, userfields |-> <<>>,
     installed_files |-> NULL, installed_files_ref_cnt |-> 0,
     essential |-> 0, auto_installed |-> 0]

\* xstrdup: a copy of the string, or NULL for NULL.
xstrdup(s) == s

MergeIdentity_WithState(m) ==
    [m EXCEPT !.old =
        [m.old EXCEPT
            !.auto_installed = IF @ = 0 THEN m.new.auto_installed ELSE @,
            !.src = IF @ = NULL THEN m.new.src ELSE @,
            !.dest = IF @ = NULL THEN m.new.dest ELSE @,
            !.architecture = IF @ = NULL THEN xstrdup(m.new.architecture) ELSE @,
            !.arch_priority = IF @ = 0 THEN m.new.arch_priority ELSE @,
            !.section = IF @ = NULL THEN xstrdup(m.new.section) ELSE @,
            !.maintainer = IF @ = NULL THEN xstrdup(m.new.maintainer) ELSE @,
            !.description = IF @ = NULL THEN xstrdup(m.new.description) ELSE @,
            !.state_status = IF @ = "SS_NOT_INSTALLED" THEN m.new.state_status
                             ELSE @]]

\* pkg.c 326-342: auto_installed, src, dest, architecture, arch_priority,
\* section, maintainer, description.
MergeIdentity(m) ==
    [m EXCEPT !.old =
        [m.old EXCEPT
            !.auto_installed = IF @ = 0 THEN m.new.auto_installed ELSE @,
            !.src = IF @ = NULL THEN m.new.src ELSE @,
            !.dest = IF @ = NULL THEN m.new.dest ELSE @,
            !.architecture = IF @ = NULL THEN xstrdup(m.new.architecture) ELSE @,
            !.arch_priority = IF @ = 0 THEN m.new.arch_priority ELSE @,
            !.section = IF @ = NULL THEN xstrdup(m.new.section) ELSE @,
            !.maintainer = IF @ = NULL THEN xstrdup(m.new.maintainer) ELSE @,
            !.description = IF @ = NULL THEN xstrdup(m.new.description) ELSE @]]

\* A mutant that leaves new with its suggests_count and old without it.
MergeDepends_KeepSuggests(m) ==
    IF /\ m.old.depends_count = 0 /\ m.old.pre_depends_count = 0
       /\ m.old.recommends_count = 0 /\ m.old.suggests_count = 0
    THEN [old |-> [m.old EXCEPT
                      !.depends_count = m.new.depends_count,
                      !.depends = m.new.depends,
                      !.pre_depends_count = m.new.pre_depends_count,
                      !.recommends_count = m.new.recommends_count],
          new |-> [m.new EXCEPT
                      !.depends_count = 0,
                      !.depends = <<>>,
                      !.pre_depends_count = 0,
                      !.recommends_count = 0]]
    ELSE m

\* pkg.c 344-360: the dependency array and its four counts.
MergeDepends(m) ==
    IF /\ m.old.depends_count = 0 /\ m.old.pre_depends_count = 0
       /\ m.old.recommends_count = 0 /\ m.old.suggests_count = 0
    THEN [old |-> [m.old EXCEPT
                      !.depends_count = m.new.depends_count,
                      !.depends = m.new.depends,
                      !.pre_depends_count = m.new.pre_depends_count,
                      !.recommends_count = m.new.recommends_count,
                      !.suggests_count = m.new.suggests_count],
          new |-> [m.new EXCEPT
                      !.depends_count = 0,
                      !.depends = <<>>,
                      !.pre_depends_count = 0,
                      !.recommends_count = 0,
                      !.suggests_count = 0]]
    ELSE m

\* pkg.c 362-369: the providers list.
MergeProvides(m) ==
    IF m.old.provides_count <= 1
    THEN [old |-> [m.old EXCEPT !.provides_count = m.new.provides_count,
                                !.provides = m.new.provides],
          new |-> [m.new EXCEPT !.provides_count = 0,
                                !.provides = <<>>]]
    ELSE m

\* pkg.c 371-377
MergeConflicts(m) ==
    IF m.old.conflicts_count = 0
    THEN [old |-> [m.old EXCEPT !.conflicts_count = m.new.conflicts_count,
                                !.conflicts = m.new.conflicts],
          new |-> [m.new EXCEPT !.conflicts_count = 0,
                                !.conflicts = <<>>]]
    ELSE m

\* pkg.c 379-385
MergeReplaces(m) ==
    IF m.old.replaces_count = 0
    THEN [old |-> [m.old EXCEPT !.replaces_count = m.new.replaces_count,
                                !.replaces = m.new.replaces],
          new |-> [m.new EXCEPT !.replaces_count = 0,
                                !.replaces = <<>>]]
    ELSE m

\* pkg.c 387-402: filename, local_filename, tmp_unpack_dir, md5sum,
\* sha256sum, size, installed_size, priority.
MergeFileFields(m) ==
    [m EXCEPT !.old =
        [m.old EXCEPT
            !.filename = IF @ = NULL THEN xstrdup(m.new.filename) ELSE @,
            !.local_filename = IF @ = NULL THEN xstrdup(m.new.local_filename) ELSE @,
            !.tmp_unpack_dir = IF @ = NULL THEN xstrdup(m.new.tmp_unpack_dir) ELSE @,
            !.md5sum = IF @ = NULL THEN xstrdup(m.new.md5sum) ELSE @,
            !.sha256sum = IF @ = NULL THEN xstrdup(m.new.sha256sum) ELSE @,
            !.size = IF @ = 0 THEN m.new.size ELSE @,
            !.installed_size = IF @ = 0 THEN m.new.installed_size ELSE @,
            !.priority = IF @ = NULL THEN xstrdup(m.new.priority) ELSE @]]

\* pkg.c 404-408: list_splice_init moves new's user fields to old.
MergeUserfields(m, verbose) ==
    IF verbose /\ m.old.userfields = <<>>
    THEN [old |-> [m.old EXCEPT !.userfields = m.new.userfields],
          new |-> [m.new EXCEPT !.userfields = <<>>]]
    ELSE m

\* pkg.c 410-411
MergeSource(m) ==
    [m EXCEPT !.old.source = IF @ = NULL THEN xstrdup(m.new.source) ELSE @]

\* pkg.c 413-415: list_splice_init moves new's conffiles to old.
MergeConffiles(m) ==
    IF m.old.conffiles = <<>>
    THEN [old |-> [m.old EXCEPT !.conffiles = m.new.conffiles],
          new |-> [m.new EXCEPT !.conffiles = <<>>]]
    ELSE m

\* A mutant that leaves new pointing at the list it handed to old.
MergeInstalledFiles_Shared(m) ==
    IF m.old.installed_files = NULL
    THEN [m EXCEPT !.old =
            [m.old EXCEPT
                !.installed_files = m.new.installed_files,
                !.installed_files_ref_cnt = m.new.installed_files_ref_cnt]]
    ELSE m

\* pkg.c 417-421: the installed_files list and its reference count.
MergeInstalledFiles(m) ==
    IF m.old.installed_files = NULL
    THEN [old |-> [m.old EXCEPT
                      !.installed_files = m.new.installed_files,
                      !.installed_files_ref_cnt = m.new.installed_files_ref_cnt],
          new |-> [m.new EXCEPT !.installed_files = NULL]]
    ELSE m

\* A mutant that lets new's essential overwrite old's.
MergeEssential_Overwrite(m) ==
    [m EXCEPT !.old.essential = m.new.essential]

\* pkg.c 423-424
MergeEssential(m) ==
    [m EXCEPT !.old.essential = IF @ = 0 THEN m.new.essential ELSE @]

\* pkg_merge(oldpkg, newpkg): the two records after the call.  The records
\* are the same object exactly when their addresses are equal.
pkg_merge(oldpkg, newpkg, verbose) ==
    IF oldpkg.addr = newpkg.addr
    THEN [old |-> oldpkg, new |-> newpkg]
    ELSE MergeEssential(
         MergeInstalledFiles(
         MergeConffiles(
         MergeSource(
         MergeUserfields(
         MergeFileFields(
         MergeReplaces(
         MergeConflicts(
         MergeProvides(
         MergeDepends(
         MergeIdentity([old |-> oldpkg, new |-> newpkg])))))), verbose)))))

\* ---- the records merged ----
\* Both records describe the package "pkg" 1.0-r1; the parser has given each
\* its providers list, led by the package's own name.
ParsedPkg(i) ==
    [pkg_init EXCEPT !.addr = i, !.name = "pkg", !.version = "1.0",
                     !.revision = "r1",
                     !.state_want = IF i = 1 THEN "SW_INSTALL" ELSE "SW_UNKNOWN",
                     !.state_flag = IF i = 1 THEN {"SF_HOLD"} ELSE {},
                     !.state_status = IF i = 1 THEN "SS_INSTALLED"
                                      ELSE "SS_NOT_INSTALLED",
                     !.provides_count = 1, !.provides = <<"pkg">>]

\* A record in which every field is set, to values of its own.
FullPkg(i) ==
    [f \in DOMAIN pkg_init |->
        IF f \in ScalarStrings THEN (IF i = 1 THEN "u" ELSE "v")
        ELSE IF f \in ScalarPointers THEN (IF i = 1 THEN "p1" ELSE "p2")
        ELSE IF f \in ScalarInts THEN i
        ELSE IF f \in {"depends_count", "pre_depends_count", "recommends_count",
                       "suggests_count", "conflicts_count", "replaces_count"}
             THEN 1
        ELSE IF f = "depends" THEN DependsArray(i, 1, 1, 1, 1)
        ELSE IF f \in {"conflicts", "replaces", "conffiles", "userfields"}
             THEN <<i>>
        ELSE IF f = "provides_count" THEN 2
        ELSE IF f = "provides" THEN <<"pkg", "virt">>
        ELSE IF f = "installed_files" THEN (IF i = 1 THEN "L1" ELSE "L2")
        ELSE IF f = "installed_files_ref_cnt" THEN 1
        ELSE ParsedPkg(i)[f]]

BasePkgs(i) == {ParsedPkg(i), FullPkg(i)}

\* The parts of a record that pkg_merge treats on their own.
ListParts == {"depends", "provides", "conflicts", "replaces", "conffiles",
              "userfields", "installed_files"}

\* The records that differ from b, the record at address i, in one part.
Variants(part, b, i) ==
    IF part \in ScalarFields
    THEN {[b EXCEPT ![part] = v] : v \in ScalarValues(part)}
    ELSE IF part = "depends"
    THEN {[b EXCEPT !.pre_depends_count = c[1], !.depends_count = c[2],
                    !.recommends_count = c[3], !.suggests_count = c[4],
                    !.depends = DependsArray(i, c[1], c[2], c[3], c[4])] :
            c \in {0, 1} \X {0, 1} \X {0, 1} \X {0, 1}}
    ELSE IF part = "provides"
    THEN {[b EXCEPT !.provides_count = Len(l), !.provides = l] :
            l \in {<<"pkg">>, <<"pkg", "virt">>,
                   <<"pkg", IF i = 1 THEN "virt1" ELSE "virt2">>,
                   <<"pkg", "virt", IF i = 1 THEN "virt1" ELSE "virt2">>}}
    ELSE IF part = "conflicts"
    THEN {[b EXCEPT !.conflicts_count = Len(l), !.conflicts = l] :
            l \in {<<>>, <<i>>, <<i, i>>}}
    ELSE IF part = "replaces"
    THEN {[b EXCEPT !.replaces_count = Len(l), !.replaces = l] :
            l \in {<<>>, <<i>>, <<i, i>>}}
    ELSE IF part = "conffiles"
    THEN {[b EXCEPT !.conffiles = l] : l \in {<<>>, <<i>>}}
    ELSE IF part = "userfields"
    THEN {[b EXCEPT !.userfields = l] : l \in {<<>>, <<i>>}}
    ELSE {[b EXCEPT !.installed_files = c[1], !.installed_files_ref_cnt = c[2]] :
            c \in {<<NULL, 0>>, <<NULL, 1>>,
                   <<IF i = 1 THEN "L1" ELSE "L2", 1>>,
                   <<IF i = 1 THEN "L1" ELSE "L2", 2>>}}

\* No records are being merged.
IdleMerge ==
    /\ pk = <<>>
    /\ pre = <<>>
    /\ hist = <<>>
    /\ verbose_status_file = FALSE

InitMerge ==
    /\ \E part \in ScalarFields \cup ListParts :
         \E b1 \in BasePkgs(1), b2 \in BasePkgs(2) :
           \E p1 \in Variants(part, b1, 1), p2 \in Variants(part, b2, 2) :
             pk = <<p1, p2>>
    /\ pre = pk
    /\ hist = <<>>
    /\ verbose_status_file \in BOOLEAN

\* One call pkg_merge(pk[i], pk[j]).
PkgMerge ==
    /\ Len(hist) < MaxMerges
    /\ \E i \in 1..2, j \in 1..2 :
         LET m == pkg_merge(pk[i], pk[j], verbose_status_file)
         IN /\ pk' = IF i = j THEN pk
                     ELSE [pk EXCEPT ![i] = m.old, ![j] = m.new]
            /\ pre' = pk
            /\ hist' = Append(hist, <<i, j>>)
    /\ UNCHANGED verbose_status_file
    /\ UNCHANGED <<verifyVars, cmpVars, fileVars, statusVars, runVars, tmpVars, refVars, saveVars>>

(***************************************************************************)
(* Properties of pkg_merge                                                 *)
(***************************************************************************)
\* The addresses of oldpkg and newpkg in the last pkg_merge call, and what
\* the two records were before it.
LastOld == hist[Len(hist)][1]
LastNew == hist[Len(hist)][2]
Merged == hist # <<>>
MergedApart == Merged /\ LastOld # LastNew

\* The scalar fields C11 lists.
C11_Fields == ScalarFields \ {"tmp_unpack_dir"}

\* C11: after pkg_merge(old, new) each scalar field of old has the value it
\* had before the merge if that value was set (not NULL, not 0), and new's
\* value otherwise.
C11_ScalarKeptElseTaken ==
    Merged =>
        \A f \in C11_Fields :
            pk[LastOld][f] = IF pre[LastOld][f] # Empty(f) THEN pre[LastOld][f]
                             ELSE pre[LastNew][f]

\* C11 witness: a merge that filled old's unset size from new and kept
\* old's md5sum against a different one in new.
C11_Witness ==
    /\ MergedApart
    /\ pre[LastOld].size = 0 /\ pre[LastNew].size = 2 /\ pk[LastOld].size = 2
    /\ pre[LastOld].md5sum = "u" /\ pre[LastNew].md5sum = "v"
    /\ pk[LastOld].md5sum = "u"

\* C12: a second pkg_merge(old, new) with the same two records leaves every
\* field of old as it was after the first.
C12_Idempotent ==
    (Len(hist) >= 2 /\ hist[Len(hist)] = hist[Len(hist) - 1]) =>
        pk[LastOld] = pre[LastOld]

\* The fields pkg_merge assigns.
MergedFields ==
    ScalarFields \cup
    {"depends", "depends_count", "pre_depends_count", "recommends_count",
     "suggests_count", "provides", "provides_count", "conflicts",
     "conflicts_count", "replaces", "replaces_count", "conffiles",
     "userfields", "installed_files", "installed_files_ref_cnt"}

\* The merged record of the call in the other direction, from the same two
\* records.
Reverse == pkg_merge(pre[LastNew], pre[LastOld], verbose_status_file).old

\* C13: the merged record of pkg_merge(a, b) has the field values of the
\* merged record of pkg_merge(b, a).
C13_Commutative ==
    MergedApart => \A f \in MergedFields : pk[LastOld][f] = Reverse[f]

NoDepends(p) ==
    /\ p.depends_count = 0 /\ p.pre_depends_count = 0
    /\ p.recommends_count = 0 /\ p.suggests_count = 0

DependsUnit(p) ==
    <<p.depends, p.pre_depends_count, p.depends_count, p.recommends_count,
      p.suggests_count>>

\* C13 amended: the two directions agree on a scalar field when at most one
\* record has it set or both have the same value, and on the dependency
\* array when at most one record has one; where both records have a field
\* set, each direction keeps the value of its own oldpkg.
C13_CommutativeUnlessBothSet ==
    MergedApart =>
        /\ \A f \in ScalarFields :
             IF \/ pre[LastOld][f] = Empty(f)
                \/ pre[LastNew][f] = Empty(f)
                \/ pre[LastOld][f] = pre[LastNew][f]
             THEN pk[LastOld][f] = Reverse[f]
             ELSE pk[LastOld][f] = pre[LastOld][f] /\ Reverse[f] = pre[LastNew][f]
        /\ (NoDepends(pre[LastOld]) \/ NoDepends(pre[LastNew])) =>
             DependsUnit(pk[LastOld]) = DependsUnit(Reverse)

\* C13 witness: the two directions agree on section, which only new had, and
\* differ on priority, which both had.
C13_Witness ==
    /\ MergedApart
    /\ pre[LastOld].section = NULL /\ pre[LastNew].section = "v"
    /\ pk[LastOld].section = "v" /\ Reverse.section = "v"
    /\ pre[LastOld].priority = "u" /\ pre[LastNew].priority = "v"
    /\ pk[LastOld].priority = "u" /\ Reverse.priority = "v"

\* The record's own name is in its providers list once, at position 0.
OwnNameFirst(p) ==
    /\ p.provides_count >= 1
    /\ Len(p.provides) = p.provides_count
    /\ p.provides[1] = p.name
    /\ Cardinality({k \in 1..Len(p.provides) : p.provides[k] = p.name}) = 1

\* C14: every record that has been the oldpkg of a pkg_merge has its own
\* name exactly once in its providers list, at position 0.
C14_OwnNameFirst ==
    \A k \in 1..Len(hist) : OwnNameFirst(pk[hist[k][1]])

\* C15: if any of old's four counts is non-zero, pkg_merge leaves old's
\* dependency array and counts alone; otherwise old takes new's array and
\* counts and new is left with none; the array of every record has
\* pre_depends_count + depends_count + recommends_count + suggests_count
\* entries.
C15_DependsAsUnit ==
    /\ MergedApart =>
         IF NoDepends(pre[LastOld])
         THEN /\ DependsUnit(pk[LastOld]) = DependsUnit(pre[LastNew])
              /\ DependsUnit(pk[LastNew]) = <<<<>>, 0, 0, 0, 0>>
         ELSE /\ DependsUnit(pk[LastOld]) = DependsUnit(pre[LastOld])
              /\ DependsUnit(pk[LastNew]) = DependsUnit(pre[LastNew])
    /\ \A i \in 1..2 :
         Len(pk[i].depends) = pk[i].pre_depends_count + pk[i].depends_count
                              + pk[i].recommends_count + pk[i].suggests_count

\* C15 witness: old had no dependencies and took new's pre-depends and
\* suggests; and a merge in which old kept its own array.
C15_Witness ==
    /\ MergedApart
    /\ NoDepends(pre[LastOld])
    /\ pre[LastNew].pre_depends_count = 1 /\ pre[LastNew].suggests_count = 1
    /\ pre[LastNew].depends_count = 0
    /\ Len(pk[LastOld].depends) = 2
    /\ pk[LastOld].suggests_count = 1
    /\ NoDepends(pk[LastNew])

\* C16: pkg_merge moves new's installed_files list to old only if old has
\* none; afterwards no list is referenced by both records, and a record that
\* references a list holds the reference count that went with that list.
C16_InstalledFilesMove ==
    MergedApart =>
        /\ IF pre[LastOld].installed_files = NULL
           THEN /\ pk[LastOld].installed_files = pre[LastNew].installed_files
                /\ pk[LastOld].installed_files_ref_cnt
                       = pre[LastNew].installed_files_ref_cnt
                /\ pk[LastNew].installed_files = NULL
           ELSE /\ pk[LastOld].installed_files = pre[LastOld].installed_files
                /\ pk[LastOld].installed_files_ref_cnt
                       = pre[LastOld].installed_files_ref_cnt
                /\ pk[LastNew].installed_files = pre[LastNew].installed_files
                /\ pk[LastNew].installed_files_ref_cnt
                       = pre[LastNew].installed_files_ref_cnt
        /\ \/ pk[1].installed_files = NULL
           \/ pk[1].installed_files # pk[2].installed_files
        /\ \A i \in 1..2 :
             pk[i].installed_files # NULL =>
                \E h \in 1..2 :
                    /\ pre[h].installed_files = pk[i].installed_files
                    /\ pre[h].installed_files_ref_cnt
                           = pk[i].installed_files_ref_cnt

\* C16 witness: old had no list, new had one with two references; old now
\* has the list and the count, new has no list.
C16_Witness ==
    /\ MergedApart
    /\ pre[LastOld].installed_files = NULL
    /\ pre[LastNew].installed_files # NULL
    /\ pre[LastNew].installed_files_ref_cnt = 2
    /\ pk[LastOld].installed_files = pre[LastNew].installed_files
    /\ pk[LastOld].installed_files_ref_cnt = 2
    /\ pk[LastNew].installed_files = NULL

(***************************************************************************)
(* File lists and the file-ownership index                                 *)
(***************************************************************************)
\* Paths are strings of characters, so that prefixes and a trailing slash
\* can be taken off them.
PathA == <<"/", "a">>
PathD == <<"/", "d">>
PathDSlash == <<"/", "d", "/">>
PathL == <<"/", "l">>

\* The two packages of the file world, by position in the package hash.
PkgIds == 1..2

\* opkg_config->offline_root: not set.
offline_root == NULL

\* The file system under the root: /a is a regular file, /d a directory,
\* /l a symbolic link to /a; lstat fails on every other name.
xlstat(name) ==
    IF name = PathA THEN [ok |-> TRUE, st_mode |-> 33188]
    ELSE IF name = PathD \/ name = PathDSlash THEN [ok |-> TRUE, st_mode |-> 16877]
    ELSE IF name = PathL THEN [ok |-> TRUE, st_mode |-> 41471]
    ELSE [ok |-> FALSE, st_mode |-> 0]

S_ISLNK(mode) == mode = 41471

file_readlink_alloc(name) == IF name = PathL THEN "/a" ELSE NULL

\* One entry of a file list, and one line of a .list file.
file_info(path, mode, link) == [path |-> path, mode |-> mode, link |-> link]

\* pkg->installed_files: a null pointer, or a list of entries.
NullList == [alloc |-> FALSE, elts |-> <<>>]
file_list_alloc == [alloc |-> TRUE, elts |-> <<>>]

\* A .list file that does not exist, and one with the given lines.
NoListFile == [exists |-> FALSE, lines |-> <<>>]
ListFile(lines) == [exists |-> TRUE, lines |-> lines]

\* The fields of a package that the file functions read and write.
FilePkg(status, flags, dest, local) ==
    [state_status |-> status, state_flag |-> flags, dest |-> dest,
     local_filename |-> local, installed_files |-> NullList,
     installed_files_ref_cnt |-> 0]

\* pkg->dest->root_dir of the one destination.
root_dir == <<"/">>

\* What the calls of one pkg_get_installed_files meet: whether mkstemp,
\* fdopen, the extraction of the file names and fopen succeed, and what a
\* read through a null pkg->dest does: the process dies, or the read yields
\* the bytes in root.
EnvOk == [mkstemp |-> TRUE, fdopen |-> TRUE, extract |-> TRUE, fopen |-> TRUE,
          crash |-> FALSE, root |-> <<>>]
Envs == {EnvOk,
         [EnvOk EXCEPT !.mkstemp = FALSE], [EnvOk EXCEPT !.fdopen = FALSE],
         [EnvOk EXCEPT !.extract = FALSE], [EnvOk EXCEPT !.fopen = FALSE],
         [EnvOk EXCEPT !.crash = TRUE], [EnvOk EXCEPT !.root = <<"?">>]}

\* The result of pkg_get_installed_files: the package afterwards, the list
\* returned (NullList for NULL), what became of the attempt, and whether a
\* field of a null pkg->dest was read.
GetResult(p, r, how, deref, crash) ==
    [pkg |-> p, ret |-> r, how |-> how, deref |-> deref, crash |-> crash]

\* pkg.c 1212-1219: a name from the package loses a leading "." and a
\* leading "/" and is put under the root directory.
RootedName(file_name, root) ==
    LET a == IF file_name # <<>> /\ Head(file_name) = "." THEN Tail(file_name)
             ELSE file_name
        b == IF a # <<>> /\ Head(a) = "/" THEN Tail(a) ELSE a
    IN root \o b

\* pkg.c 1220-1235: a line of the .list file, its mode and link target
\* completed from the file system.
ListedFile(line) ==
    LET installed_file_name == line.path
        mode == IF line.mode = 0 /\ xlstat(installed_file_name).ok
                THEN xlstat(installed_file_name).st_mode ELSE line.mode
        link_target == IF line.link = NULL /\ S_ISLNK(mode)
                       THEN file_readlink_alloc(installed_file_name)
                       ELSE line.link
    IN file_info(installed_file_name, mode, link_target)

\* pkg.c 1190-1241: the loop over the lines read.
ReadLines(lines, list_from_package, root) ==
    [i \in 1..Len(lines) |->
        IF list_from_package
        THEN file_info(RootedName(lines[i].path, root), lines[i].mode,
                       lines[i].link)
        ELSE ListedFile(lines[i])]

\* pkg_get_installed_files(pkg), given the names in the package's data
\* archive and the package's .list file.
pkg_get_installed_files(pkg, e, names, list_file) ==
    LET counted == [pkg EXCEPT !.installed_files_ref_cnt = @ + 1]
        fresh == [counted EXCEPT !.installed_files = file_list_alloc]
        list_from_package ==
            pkg.state_status = "SS_NOT_INSTALLED" \/ pkg.dest = NULL
        deref == list_from_package /\ pkg.dest = NULL /\ names # <<>>
        root == IF pkg.dest = NULL THEN e.root ELSE root_dir
        filled(lines) ==
            [fresh EXCEPT !.installed_files.elts =
                              ReadLines(lines, list_from_package, root)]
    IN  IF pkg.installed_files.alloc
        THEN GetResult(counted, counted.installed_files, "cached", FALSE, FALSE)
        ELSE IF list_from_package
        THEN IF pkg.local_filename = NULL
             THEN GetResult(fresh, fresh.installed_files, "empty", FALSE, FALSE)
             ELSE IF ~e.mkstemp \/ ~e.fdopen
             THEN GetResult(fresh, fresh.installed_files, "failed", FALSE, FALSE)
             ELSE IF ~e.extract
             THEN GetResult([counted EXCEPT !.installed_files = NullList],
                            NullList, "null", FALSE, FALSE)
             ELSE IF deref /\ e.crash
             THEN GetResult(fresh, fresh.installed_files, "crashed", TRUE, TRUE)
             ELSE GetResult(filled(names), filled(names).installed_files,
                            "read", deref, FALSE)
        ELSE IF ~e.fopen \/ ~list_file.exists
             THEN GetResult(fresh, fresh.installed_files, "failed", FALSE, FALSE)
             ELSE GetResult(filled(list_file.lines),
                            filled(list_file.lines).installed_files,
                            "read", FALSE, FALSE)

pkg_free_installed_files_Always(pkg) ==
    [pkg EXCEPT !.installed_files_ref_cnt = @ - 1, !.installed_files = NullList]

\* pkg_free_installed_files(pkg)
pkg_free_installed_files(pkg) ==
    LET counted == [pkg EXCEPT !.installed_files_ref_cnt = @ - 1]
    IN IF counted.installed_files_ref_cnt > 0 THEN counted
       ELSE [counted EXCEPT !.installed_files = NullList]

\* The file-ownership index: a hash from path to owning package.
\* file_hash_set_file_owner(path, pkg) makes pkg the owner of path.
file_hash_set_file_owner(h, path, p) ==
    [k \in DOMAIN h \cup {path} |-> IF k = path THEN p ELSE h[k]]

RECURSIVE SetOwners(_, _, _)
SetOwners(h, elts, p) ==
    IF elts = <<>> THEN h
    ELSE SetOwners(file_hash_set_file_owner(h, Head(elts).path, p), Tail(elts), p)

EmptyHash == [k \in {} |-> 0]

\* pkg_hash_fetch_all_installed: the installed packages, in hash visit.
RECURSIVE InstalledFrom(_, _)
InstalledFrom(ps, i) ==
    IF i > Len(ps) THEN <<>>
    ELSE (IF ps[i].state_status = "SS_INSTALLED" THEN <<i>> ELSE <<>>)
             \o InstalledFrom(ps, i + 1)

pkg_hash_fetch_all_installed(ps) == InstalledFrom(ps, 1)

\* pkg.c 1396-1412: the loop of pkg_info_preinstall_check from package i of
\* the vector on; st is the packages, the index and the attempts so far.
RECURSIVE CheckLoop(_, _, _, _, _, _)
CheckLoop(vec, i, st, e, names, lists) ==
    IF i > Len(vec) THEN st
    ELSE LET p == vec[i]
             g == pkg_get_installed_files(st.pkgs[p], e[p], names[p], lists[p])
         IN IF g.crash
            THEN [st EXCEPT !.pkgs[p] = g.pkg, !.how[p] = g.how,
                            !.crashed = TRUE]
            ELSE IF ~g.ret.alloc
            THEN [st EXCEPT !.pkgs[p] = g.pkg, !.how[p] = g.how]
            ELSE CheckLoop(vec, i + 1,
                     [st EXCEPT !.pkgs[p] = pkg_free_installed_files(g.pkg),
                                !.how[p] = g.how,
                                !.hash = SetOwners(st.hash, g.ret.elts, p)],
                     e, names, lists)

pkg_info_preinstall_check(ps, h, e, names, lists) ==
    CheckLoop(pkg_hash_fetch_all_installed(ps), 1,
              [pkgs |-> ps, hash |-> h, how |-> [p \in PkgIds |-> "none"],
               crashed |-> FALSE],
              e, names, lists)

\* A mutant that writes the index key as it is.
StripSlash_Keep(key) == key

\* pkg.c 1438-1440: the key without one trailing slash.
StripSlash(key) ==
    IF Len(key) > 0 /\ key[Len(key)] = "/" THEN SubSeq(key, 1, Len(key) - 1)
    ELSE key

\* pkg_write_filelist_helper: the lines written for one entry of the index.
pkg_write_filelist_helper(key, owner, p) ==
    IF owner = p
    THEN LET entry == StripSlash(key)
             installed_file_name == entry
             st == xlstat(installed_file_name)
             mode == IF st.ok THEN st.st_mode ELSE 0
             link_target == IF st.ok /\ S_ISLNK(mode)
                            THEN file_readlink_alloc(installed_file_name)
                            ELSE NULL
         IN <<file_info(entry, mode, link_target)>>
    ELSE <<>>

\* hash_table_foreach visits every entry once, in the table's own order: any
\* order of the keys.
hash_table_foreach(h) ==
    {o \in [1..Cardinality(DOMAIN h) -> DOMAIN h] :
        \A i, j \in DOMAIN o : i # j => o[i] # o[j]}

RECURSIVE WriteEntries(_, _, _, _)
WriteEntries(h, visit, i, p) ==
    IF i > Len(visit) THEN <<>>
    ELSE pkg_write_filelist_helper(visit[i], h[visit[i]], p)
             \o WriteEntries(h, visit, i + 1, p)

\* pkg_write_filelist(pkg): the return value, the package and its .list
\* file afterwards.
pkg_write_filelist(pkg, p, old_file, h, fopen_ok, visit) ==
    IF ~fopen_ok
    THEN [ret |-> -1, pkg |-> pkg, file |-> old_file]
    ELSE [ret |-> 0,
          pkg |-> [pkg EXCEPT !.state_flag = @ \ {"SF_FILELIST_CHANGED"}],
          file |-> ListFile(WriteEntries(h, visit, 1, p))]

\* ---- the packages, lists and index the file functions are run on ----
Line(path) == file_info(path, 0, NULL)

RECURSIVE SeqsUpTo(_, _)
SeqsUpTo(S, n) ==
    IF n = 0 THEN {<<>>}
    ELSE SeqsUpTo(S, n - 1)
            \cup {Append(s, x) : s \in {t \in SeqsUpTo(S, n - 1) : Len(t) = n - 1},
                                 x \in S}

\* The .list files pkg_info_preinstall_check may find: none, or up to
\* MaxLines lines naming /a or /d/.
CheckPaths == {PathA, PathDSlash}
CheckListFiles ==
    {NoListFile}
        \cup {ListFile(l) : l \in SeqsUpTo({Line(x) : x \in CheckPaths}, MaxLines)}

\* The names pkg_extract_data_file_names_to_stream may give: none, or ./a.
DataNames == {<<>>, <<Line(<<".", "/", "a">>)>>}

IdleFiles ==
    /\ fpkgs = [p \in PkgIds |-> FilePkg("SS_NOT_INSTALLED", {}, NULL, NULL)]
    /\ list_files = [p \in PkgIds |-> NoListFile]
    /\ data_names = [p \in PkgIds |-> <<>>]
    /\ file_hash = EmptyHash
    /\ fhow = [p \in PkgIds |-> "none"]
    /\ fsubject = 0
    /\ fret = 0
    /\ fpc = "idle"

\* At startup: packages known from the status files or from package files,
\* the .list files of those that have a destination, and an empty index.
InitCheck ==
    /\ fpkgs \in [PkgIds -> {FilePkg(s, {}, d, l) :
                    s \in {"SS_INSTALLED", "SS_NOT_INSTALLED"},
                    d \in {NULL, "root"}, l \in {NULL, "f.opk"}}]
    /\ list_files \in [PkgIds -> CheckListFiles]
    /\ \A p \in PkgIds : fpkgs[p].dest = NULL => list_files[p] = NoListFile
    /\ data_names \in [PkgIds -> DataNames]
    /\ \A p \in PkgIds : fpkgs[p].local_filename = NULL => data_names[p] = <<>>
    /\ file_hash = EmptyHash
    /\ fhow = [p \in PkgIds |-> "none"]
    /\ fsubject = 0
    /\ fret = 0
    /\ fpc = "idle"

\* During a transaction: installed packages, an index in which each of the
\* keys /a, /d, /d/ and /l is unset or owned by one of them, and .list files
\* from before.
WriteKeys == {PathA, PathD, PathDSlash, PathL}
InitWrite ==
    /\ fpkgs \in [PkgIds -> {FilePkg("SS_INSTALLED", fl, "root", NULL) :
                    fl \in {{}, {"SF_FILELIST_CHANGED"},
                            {"SF_FILELIST_CHANGED", "SF_HOLD"}}}]
    /\ list_files \in [PkgIds -> {NoListFile, ListFile(<<Line(PathL)>>)}]
    /\ data_names = [p \in PkgIds |-> <<>>]
    /\ \E keys \in SUBSET WriteKeys : file_hash \in [keys -> PkgIds]
    /\ fhow = [p \in PkgIds |-> "none"]
    /\ fsubject = 0
    /\ fret = 0
    /\ fpc = "idle"

\* One run of pkg_info_preinstall_check.
PkgInfoPreinstallCheck ==
    /\ fpc = "idle"
    /\ \E e \in [PkgIds -> Envs] :
         LET r == pkg_info_preinstall_check(fpkgs, file_hash, e, data_names,
                                            list_files)
         IN /\ fpkgs' = r.pkgs
            /\ file_hash' = r.hash
            /\ fhow' = r.how
            /\ fpc' = IF r.crashed THEN "crashed" ELSE "checked"
    /\ UNCHANGED <<list_files, data_names, fsubject, fret>>
    /\ UNCHANGED <<verifyVars, cmpVars, mergeVars, statusVars, runVars, tmpVars, refVars, saveVars>>

\* One call pkg_write_filelist(pkg) for a package with a destination.
PkgWriteFilelist ==
    /\ fpc = "idle"
    /\ \E p \in PkgIds, fopen_ok \in BOOLEAN :
         /\ fpkgs[p].dest # NULL
         /\ \E visit \in hash_table_foreach(file_hash) :
              LET r == pkg_write_filelist(fpkgs[p], p, list_files[p], file_hash,
                                          fopen_ok, visit)
              IN /\ fpkgs' = [fpkgs EXCEPT ![p] = r.pkg]
                 /\ list_files' = [list_files EXCEPT ![p] = r.file]
                 /\ fret' = r.ret
                 /\ fsubject' = p
                 /\ fpc' = "written"
    /\ UNCHANGED <<data_names, file_hash, fhow>>
    /\ UNCHANGED <<verifyVars, cmpVars, mergeVars, statusVars, runVars, tmpVars, refVars, saveVars>>

(***************************************************************************)
(* Properties of the file lists and the index                              *)
(***************************************************************************)
\* A path without its trailing slash, if it has one.
NoSlash(k) ==
    IF Len(k) > 0 /\ k[Len(k)] = "/" THEN [i \in 1..(Len(k) - 1) |-> k[i]] ELSE k

OwnedKeys(p) == {k \in DOMAIN file_hash : file_hash[k] = p}

\* C17: after a successful pkg_write_filelist(pkg) the package's .list file
\* has exactly one record for every key of the index that pkg owns, naming
\* the key without its trailing slash, and no record that comes from a key
\* another package owns.
C17_ListIsOwnedPaths ==
    (fpc = "written" /\ fret = 0) =>
        LET lines == list_files[fsubject].lines
        IN /\ list_files[fsubject].exists
           /\ Len(lines) = Cardinality(OwnedKeys(fsubject))
           /\ \A k \in OwnedKeys(fsubject) :
                \E i \in 1..Len(lines) : lines[i].path = NoSlash(k)
           /\ \A i \in 1..Len(lines) :
                \E k \in OwnedKeys(fsubject) : lines[i].path = NoSlash(k)

\* C17 witness: the package written owns /a and /d/, the other package owns
\* /l; the list has two records, /a and /d.
C17_Witness ==
    /\ fpc = "written" /\ fret = 0 /\ fsubject = 1
    /\ OwnedKeys(1) = {PathA, PathDSlash}
    /\ OwnedKeys(2) = {PathL}
    /\ Len(list_files[1].lines) = 2
    /\ {list_files[1].lines[i].path : i \in 1..2} = {PathA, PathD}

\* The paths recorded in the .list file of package p.
ListedPaths(p) == {list_files[p].lines[i].path : i \in 1..Len(list_files[p].lines)}

InstalledWithList(p) ==
    /\ fpkgs[p].state_status = "SS_INSTALLED"
    /\ fpkgs[p].dest # NULL
    /\ list_files[p].exists

\* C18: after pkg_info_preinstall_check the index maps every path recorded
\* in the .list file of an installed package to that package, also when
\* reading the list of another package has failed.  Stated for the paths
\* that only one installed package records and for the packages whose own
\* .list file could be opened.
C18_IndexMapsListed ==
    fpc = "checked" =>
        \A p \in PkgIds :
            (InstalledWithList(p) /\ fhow[p] # "failed") =>
                \A path \in ListedPaths(p) :
                    (\A q \in PkgIds \ {p} :
                        ~(InstalledWithList(q) /\ path \in ListedPaths(q)))
                    => (path \in DOMAIN file_hash /\ file_hash[path] = p)

(***************************************************************************)
(* The text form of the status triple                                      *)
(***************************************************************************)
\* pkg_state_flag_t is a bit set; a value is modelled as the set of its bits,
\* each bit by the name of its flag.  SF_OK is the value with no bit set.
\* (The enumerators are written sf_... here: SF_ begins a fairness formula.)
sf_OK == {}
sf_REINSTREQ == {"SF_REINSTREQ"}
sf_HOLD == {"SF_HOLD"}
sf_REPLACE == {"SF_REPLACE"}
sf_NOPRUNE == {"SF_NOPRUNE"}
sf_PREFER == {"SF_PREFER"}
sf_OBSOLETE == {"SF_OBSOLETE"}
sf_MARKED == {"SF_MARKED"}
sf_FILELIST_CHANGED == {"SF_FILELIST_CHANGED"}
sf_USER == {"SF_USER"}
sf_NEED_DETAIL == {"SF_NEED_DETAIL"}

\* The flags that are kept in the status file.
sf_NONVOLATILE_FLAGS ==
    sf_HOLD \cup sf_NOPRUNE \cup sf_PREFER \cup sf_OBSOLETE \cup sf_USER

StateFlags ==
    SUBSET (sf_REINSTREQ \cup sf_HOLD \cup sf_REPLACE \cup sf_NOPRUNE
            \cup sf_PREFER \cup sf_OBSOLETE \cup sf_MARKED
            \cup sf_FILELIST_CHANGED \cup sf_USER \cup sf_NEED_DETAIL)

enum_map(value, str) == [value |-> value, str |-> str]

pkg_state_want_map ==
    <<enum_map("SW_UNKNOWN", "unknown"),
      enum_map("SW_INSTALL", "install"),
      enum_map("SW_DEINSTALL", "deinstall"),
      enum_map("SW_PURGE", "purge")>>

\* The flag names are strings of characters: pkg_state_flag_from_str matches
\* them as prefixes and steps over commas.
pkg_state_flag_map ==
    <<enum_map(sf_OK, <<"o", "k">>),
      enum_map(sf_REINSTREQ, <<"r", "e", "i", "n", "s", "t", "r", "e", "q">>),
      enum_map(sf_HOLD, <<"h", "o", "l", "d">>),
      enum_map(sf_REPLACE, <<"r", "e", "p", "l", "a", "c", "e">>),
      enum_map(sf_NOPRUNE, <<"n", "o", "p", "r", "u", "n", "e">>),
      enum_map(sf_PREFER, <<"p", "r", "e", "f", "e", "r">>),
      enum_map(sf_OBSOLETE, <<"o", "b", "s", "o", "l", "e", "t", "e">>),
      enum_map(sf_USER, <<"u", "s", "e", "r">>)>>

pkg_state_status_map ==
    <<enum_map("SS_NOT_INSTALLED", "not-installed"),
      enum_map("SS_UNPACKED", "unpacked"),
      enum_map("SS_HALF_CONFIGURED", "half-configured"),
      enum_map("SS_INSTALLED", "installed"),
      enum_map("SS_HALF_INSTALLED", "half-installed"),
      enum_map("SS_CONFIG_FILES", "config-files"),
      enum_map("SS_POST_INST_FAILED", "post-inst-failed"),
      enum_map("SS_REMOVAL_FAILED", "removal-failed")>>

\* The string of the first entry of map from i on whose value is v, or
\* unknown if there is none.
RECURSIVE StrOfValue(_, _, _, _)
StrOfValue(map, i, v, unknown) ==
    IF i > Len(map) THEN unknown
    ELSE IF map[i].value = v THEN map[i].str
    ELSE StrOfValue(map, i + 1, v, unknown)

\* The value of the first entry of map from i on whose string is str, or
\* default if there is none.
RECURSIVE ValueOfStr(_, _, _, _)
ValueOfStr(map, i, str, default) ==
    IF i > Len(map) THEN default
    ELSE IF map[i].str = str THEN map[i].value
    ELSE ValueOfStr(map, i + 1, str, default)

pkg_state_want_to_str(sw) ==
    StrOfValue(pkg_state_want_map, 1, sw, "<STATE_WANT_UNKNOWN>")

pkg_state_want_from_str(str) ==
    ValueOfStr(pkg_state_want_map, 1, str, "SW_UNKNOWN")

pkg_state_status_to_str(ss) ==
    StrOfValue(pkg_state_status_map, 1, ss, "<STATE_STATUS_UNKNOWN>")

pkg_state_status_from_str(str) ==
    ValueOfStr(pkg_state_status_map, 1, str, "SS_NOT_INSTALLED")

\* pkg.c 494-499: the names of the flags of sf, in the order of the map,
\* each followed by a comma.
RECURSIVE FlagNames(_, _)
FlagNames(sf, i) ==
    IF i > Len(pkg_state_flag_map) THEN <<>>
    ELSE (IF sf \cap pkg_state_flag_map[i].value # {}
          THEN pkg_state_flag_map[i].str \o <<",">> ELSE <<>>)
             \o FlagNames(sf, i + 1)

\* A mutant that converts the volatile flags too.
pkg_state_flag_to_str_NoMask(sf) ==
    IF sf = {} THEN <<"o", "k">>
    ELSE SubSeq(FlagNames(sf, 1), 1, Len(FlagNames(sf, 1)) - 1)

pkg_state_flag_to_str(sf) ==
    LET nv == sf \cap sf_NONVOLATILE_FLAGS
    IN IF nv = {} THEN <<"o", "k">>
       ELSE SubSeq(FlagNames(nv, 1), 1, Len(FlagNames(nv, 1)) - 1)

\* strncmp(str, sfname, strlen(sfname)) == 0
StartsWith(str, sfname) ==
    Len(str) >= Len(sfname) /\ SubSeq(str, 1, Len(sfname)) = sfname

\* pkg.c 519-531: the loop over the map from entry i on.
RECURSIVE FlagsFrom(_, _, _)
FlagsFrom(i, str, sf) ==
    IF i > Len(pkg_state_flag_map) THEN sf
    ELSE LET sfname == pkg_state_flag_map[i].str
             rest == SubSeq(str, Len(sfname) + 1, Len(str))
         IN IF StartsWith(str, sfname)
            THEN IF rest # <<>> /\ rest[1] = ","
                 THEN FlagsFrom(i + 1, Tail(rest),
                                sf \cup pkg_state_flag_map[i].value)
                 ELSE sf \cup pkg_state_flag_map[i].value
            ELSE FlagsFrom(i + 1, str, sf)

\* A mutant that stops at the first name it finds.
pkg_state_flag_from_str_FirstOnly(str) ==
    LET found == {i \in 1..Len(pkg_state_flag_map) :
                    StartsWith(str, pkg_state_flag_map[i].str)}
    IN IF found = {} THEN sf_OK
       ELSE pkg_state_flag_map[CHOOSE i \in found : \A j \in found : i <= j].value

pkg_state_flag_from_str(str) ==
    IF str = <<"o", "k">> THEN sf_OK ELSE FlagsFrom(1, str, sf_OK)

\* pkg_formatted_field, field Status: the three words of the line
\* "Status: <want> <flag> <status>".
StatusWords(pkg) ==
    [want |-> pkg_state_want_to_str(pkg.state_want),
     flag |-> pkg_state_flag_to_str(pkg.state_flag),
     status |-> pkg_state_status_to_str(pkg.state_status)]

\* The status triple parsed from the three words.
ParsedStatus(words) ==
    [state_want |-> pkg_state_want_from_str(words.want),
     state_flag |-> pkg_state_flag_from_str(words.flag),
     state_status |-> pkg_state_status_from_str(words.status)]

StateWants == {pkg_state_want_map[i].value : i \in 1..Len(pkg_state_want_map)}
StateStatuses == {pkg_state_status_map[i].value : i \in 1..Len(pkg_state_status_map)}

NoWords == [want |-> "", flag |-> <<>>, status |-> ""]

IdleStatus ==
    /\ spkg = [state_want |-> "SW_UNKNOWN", state_flag |-> sf_OK,
               state_status |-> "SS_NOT_INSTALLED"]
    /\ status_words = NoWords
    /\ sparsed = spkg
    /\ spc = "idle"

InitStatus ==
    /\ spkg \in [state_want : StateWants, state_flag : StateFlags,
                 state_status : StateStatuses]
    /\ status_words = NoWords
    /\ sparsed = [state_want |-> "SW_UNKNOWN", state_flag |-> sf_OK,
                  state_status |-> "SS_NOT_INSTALLED"]
    /\ spc = "idle"

\* pkg_formatted_field(fp, pkg, "Status")
FormatStatus ==
    /\ spc = "idle"
    /\ status_words' = StatusWords(spkg)
    /\ spc' = "formatted"
    /\ UNCHANGED <<spkg, sparsed>>
    /\ UNCHANGED <<verifyVars, cmpVars, mergeVars, fileVars, runVars, tmpVars, refVars, saveVars>>

\* The three words of the line given to the three from_str functions.
ParseStatus ==
    /\ spc = "formatted"
    /\ sparsed' = ParsedStatus(status_words)
    /\ spc' = "parsed"
    /\ UNCHANGED <<spkg, status_words>>
    /\ UNCHANGED <<verifyVars, cmpVars, mergeVars, fileVars, runVars, tmpVars, refVars, saveVars>>

(***************************************************************************)
(* Properties of the status line                                           *)
(***************************************************************************)
\* The pieces of a string between its commas.
RECURSIVE Split(_, _)
Split(str, piece) ==
    IF str = <<>> THEN <<piece>>
    ELSE IF Head(str) = "," THEN <<piece>> \o Split(Tail(str), <<>>)
    ELSE Split(Tail(str), Append(piece, Head(str)))

\* The name the map gives to the flag f.
NameOfFlag(f) ==
    (CHOOSE m \in {pkg_state_flag_map[i] : i \in 1..Len(pkg_state_flag_map)} :
        m.value = {f}).str

\* C19: the flag word of the Status line is "ok" exactly when state_flag has
\* no non-volatile flag; otherwise it is the comma-separated names of
\* exactly the non-volatile flags that are set, each once.
C19_FlagWord ==
    spc # "idle" =>
        LET nv == spkg.state_flag \cap sf_NONVOLATILE_FLAGS
            pieces == Split(status_words.flag, <<>>)
        IN /\ (status_words.flag = <<"o", "k">>) <=> (nv = {})
           /\ nv # {} =>
                /\ Len(pieces) = Cardinality(nv)
                /\ {pieces[i] : i \in 1..Len(pieces)} = {NameOfFlag(f) : f \in nv}

\* C19 witness: hold and user are set together with the volatile flags
\* reinstreq and marked; the word is "hold,user".
C19_Witness ==
    /\ spc = "formatted"
    /\ spkg.state_flag = sf_HOLD \cup sf_USER \cup sf_REINSTREQ \cup sf_MARKED
    /\ status_words.flag = <<"h", "o", "l", "d", ",", "u", "s", "e", "r">>

\* C20: parsing the three words of the Status line gives back the
\* state_want, the state_status and the set of non-volatile flags of the
\* package.
C20_RoundTrip ==
    spc = "parsed" =>
        /\ sparsed.state_want = spkg.state_want
        /\ sparsed.state_status = spkg.state_status
        /\ sparsed.state_flag = spkg.state_flag \cap sf_NONVOLATILE_FLAGS

\* C20 witness: purge, half-configured and the flags noprune, obsolete and
\* filelist-changed come back as purge, half-configured, noprune and
\* obsolete.
C20_Witness ==
    /\ spc = "parsed"
    /\ spkg.state_want = "SW_PURGE"
    /\ spkg.state_status = "SS_HALF_CONFIGURED"
    /\ spkg.state_flag = sf_NOPRUNE \cup sf_OBSOLETE \cup sf_FILELIST_CHANGED
    /\ status_words.want = "purge"
    /\ status_words.status = "half-configured"
    /\ sparsed.state_flag = sf_NOPRUNE \cup sf_OBSOLETE

(***************************************************************************)
(* pkg_run_script                                                          *)
(***************************************************************************)
\* The path of the script: in the info directory of the destination for
\* installed, unpacked and half-installed packages, in the unpack directory
\* otherwise.
ScriptInInfoDir(pkg) ==
    pkg.state_status \in {"SS_INSTALLED", "SS_UNPACKED", "SS_HALF_INSTALLED"}

\* What a call of pkg_run_script leaves behind: its return value and the
\* commands it ran.
RunResult(r, cmds) == [ret |-> r, cmds |-> cmds]

\* pkg_run_script(pkg, script, args); disk tells where the script file is,
\* status is what xsystem returns for the command.
pkg_run_script(cfg, pkg, disk, status) ==
    IF cfg.noaction THEN RunResult(0, <<>>)
    ELSE IF cfg.offline_root # NULL /\ ~cfg.force_postinstall
    THEN RunResult(0, <<>>)
    ELSE IF ScriptInInfoDir(pkg) /\ pkg.dest = NULL THEN RunResult(-1, <<>>)
    ELSE IF ~ScriptInInfoDir(pkg) /\ pkg.tmp_unpack_dir = NULL
    THEN RunResult(-1, <<>>)
    ELSE LET path == IF ScriptInInfoDir(pkg) THEN "info" ELSE "tmp"
         IN IF ~disk[path] THEN RunResult(0, <<>>)
            ELSE RunResult(status, <<path>>)

RunConfigs == [noaction : BOOLEAN, offline_root : {NULL, "/o"},
               force_postinstall : BOOLEAN]
RunPkgs == [state_status : StateStatuses, dest : {NULL, "root"},
            tmp_unpack_dir : {NULL, "/tmp/unpack"}]
RunDisks == [info : BOOLEAN, tmp : BOOLEAN]
\* exit statuses of the script
ExitStatuses == {0, 1}

IdleRun ==
    /\ rcfg = [noaction |-> FALSE, offline_root |-> NULL,
               force_postinstall |-> FALSE]
    /\ rpkg = [state_status |-> "SS_NOT_INSTALLED", dest |-> NULL,
               tmp_unpack_dir |-> NULL]
    /\ rdisk = [info |-> FALSE, tmp |-> FALSE]
    /\ rret = 0
    /\ rexec = <<>>
    /\ rpc = "idle"

InitRun ==
    /\ rcfg \in RunConfigs
    /\ rpkg \in RunPkgs
    /\ rdisk \in RunDisks
    /\ rret = 0
    /\ rexec = <<>>
    /\ rpc = "idle"

\* One call of pkg_run_script.
PkgRunScript ==
    /\ rpc = "idle"
    /\ \E status \in ExitStatuses :
         LET r == pkg_run_script(rcfg, rpkg, rdisk, status)
         IN /\ rret' = r.ret
            /\ rexec' = r.cmds
    /\ rpc' = "returned"
    /\ UNCHANGED <<rcfg, rpkg, rdisk>>
    /\ UNCHANGED <<verifyVars, cmpVars, mergeVars, fileVars, statusVars, tmpVars, refVars, saveVars>>

\* C21: whenever the maintainer script is absent from disk (neither in the
\* info directory nor in the unpack directory), pkg_run_script returns 0
\* and executes nothing, whatever the package's state_status.
C21_AbsentScriptIsSuccess ==
    (rpc = "returned" /\ ~rdisk.info /\ ~rdisk.tmp) =>
        (rret = 0 /\ rexec = <<>>)

(***************************************************************************)
(* Temporary files of pkg_init_from_file and pkg_get_installed_files       *)
(***************************************************************************)
\* What one call of pkg_init_from_file meets: whether mkstemp and fdopen
\* succeed, and what pkg_extract_control_file_to_stream and
\* pkg_parse_from_stream return.
ControlEnvs == [mkstemp : BOOLEAN, fdopen : BOOLEAN, extract : {0, -1},
                parse : {0, 1, -1}]

\* The outcome of a call: the calls it made on the temporary file, whether
\* it reported success, and whether the process died in it.
TempResult(made, ok, crashed) ==
    [calls |-> made, ok |-> ok, crashed |-> crashed]

\* pkg_init_from_file, restricted to its work on the temporary control
\* file.  The labels err2, err1, err0 fall through to each other.
pkg_init_from_file_ParseLeak(e) ==
    IF ~e.mkstemp THEN TempResult(<<>>, FALSE, FALSE)
    ELSE IF ~e.fdopen
    THEN TempResult(<<"mkstemp", "close", "unlink">>, FALSE, FALSE)
    ELSE IF e.extract # 0
    THEN TempResult(<<"mkstemp", "fdopen", "fclose", "unlink">>, FALSE, FALSE)
    ELSE IF e.parse # 0
    THEN TempResult(<<"mkstemp", "fdopen">>, FALSE, FALSE)
    ELSE TempResult(<<"mkstemp", "fdopen", "fclose", "unlink">>, TRUE, FALSE)

pkg_init_from_file(e) ==
    LET err2 == <<"fclose">>
        err1 == <<"unlink">>
    IN IF ~e.mkstemp THEN TempResult(<<>>, FALSE, FALSE)
       ELSE IF ~e.fdopen
       THEN TempResult(<<"mkstemp", "close">> \o err1, FALSE, FALSE)
       ELSE IF e.extract # 0
       THEN TempResult(<<"mkstemp", "fdopen">> \o err2 \o err1, FALSE, FALSE)
       ELSE TempResult(<<"mkstemp", "fdopen">> \o err2 \o err1,
                       e.parse = 0, FALSE)

\* pkg_get_installed_files, restricted to its work on the temporary list
\* file: the file is made only when the list comes from the package, and a
\* read through a null pkg->dest may end the process inside the loop.
TempListCalls(pkg, e, names) ==
    LET r == pkg_get_installed_files(pkg, e, names, NoListFile)
        list_from_package ==
            pkg.state_status = "SS_NOT_INSTALLED" \/ pkg.dest = NULL
    IN IF pkg.installed_files.alloc \/ ~list_from_package
          \/ pkg.local_filename = NULL \/ ~e.mkstemp
       THEN TempResult(<<>>, r.ret.alloc, FALSE)
       ELSE IF ~e.fdopen
       THEN TempResult(<<"mkstemp", "close", "unlink">>, r.ret.alloc, FALSE)
       ELSE IF ~e.extract
       THEN TempResult(<<"mkstemp", "fdopen", "fclose", "unlink">>,
                       r.ret.alloc, FALSE)
       ELSE IF r.crash
       THEN TempResult(<<"mkstemp", "fdopen">>, FALSE, TRUE)
       ELSE TempResult(<<"mkstemp", "fdopen", "fclose", "unlink">>,
                       r.ret.alloc, FALSE)

\* The state of the temporary file and of its descriptor or stream after a
\* sequence of calls.
RECURSIVE TempState(_)
TempState(made) ==
    IF made = <<>> THEN [file |-> "none", handle |-> "none"]
    ELSE LET before == TempState(SubSeq(made, 1, Len(made) - 1))
             call == made[Len(made)]
         IN CASE call = "mkstemp" -> [file |-> "exists", handle |-> "fd"]
              [] call = "fdopen" -> [before EXCEPT !.handle = "stream"]
              [] call = "close" -> [before EXCEPT !.handle = "closed"]
              [] call = "fclose" -> [before EXCEPT !.handle = "closed"]
              [] call = "unlink" -> [before EXCEPT !.file = "unlinked"]

TempPkgs ==
    {FilePkg(s, {}, d, l) : s \in StateStatuses, d \in {NULL, "root"},
                            l \in {NULL, "f.opk"}}

IdleTmp ==
    /\ tfn = "none"
    /\ tpkg = FilePkg("SS_NOT_INSTALLED", {}, NULL, NULL)
    /\ tnames = <<>>
    /\ tcalls = <<>>
    /\ tret = FALSE
    /\ tpc = "idle"

InitTmp ==
    /\ tfn \in {"pkg_init_from_file", "pkg_get_installed_files"}
    /\ tpkg \in TempPkgs
    /\ tnames \in DataNames
    /\ tpkg.local_filename = NULL => tnames = <<>>
    /\ tfn = "pkg_init_from_file" =>
           tpkg = FilePkg("SS_NOT_INSTALLED", {}, NULL, "f.opk")
    /\ tcalls = <<>>
    /\ tret = FALSE
    /\ tpc = "idle"

\* One call pkg_init_from_file(pkg, filename).
PkgInitFromFile ==
    /\ tpc = "idle"
    /\ tfn = "pkg_init_from_file"
    /\ \E e \in ControlEnvs :
         LET r == pkg_init_from_file(e)
         IN /\ tcalls' = r.calls
            /\ tret' = r.ok
            /\ tpc' = "returned"
    /\ UNCHANGED <<tfn, tpkg, tnames>>
    /\ UNCHANGED <<verifyVars, cmpVars, mergeVars, fileVars, statusVars, runVars, refVars, saveVars>>

\* One call pkg_get_installed_files(pkg), followed on its temporary file.
PkgGetInstalledFilesTemp ==
    /\ tpc = "idle"
    /\ tfn = "pkg_get_installed_files"
    /\ \E e \in Envs :
         LET r == TempListCalls(tpkg, e, tnames)
         IN /\ tcalls' = r.calls
            /\ tret' = r.ok
            /\ tpc' = IF r.crashed THEN "crashed" ELSE "returned"
    /\ UNCHANGED <<tfn, tpkg, tnames>>
    /\ UNCHANGED <<verifyVars, cmpVars, mergeVars, fileVars, statusVars, runVars, refVars, saveVars>>

TempCreated == \E i \in 1..Len(tcalls) : tcalls[i] = "mkstemp"

\* C22: whenever pkg_init_from_file or pkg_get_installed_files has returned
\* after creating its temporary file, on the success path as on every
\* failure path, the file has been unlinked and its descriptor or stream
\* closed.
C22_TempFileReleased ==
    (tpc = "returned" /\ TempCreated) =>
        (TempState(tcalls).file = "unlinked"
            /\ TempState(tcalls).handle = "closed")

\* A failure path taken after the file was created has returned.
C22_Witness ==
    /\ tpc = "returned"
    /\ TempCreated
    /\ ~tret
    /\ TempState(tcalls).file = "unlinked"

(***************************************************************************)
(* verrevcmp on strings of digits                                          *)
(***************************************************************************)
\* The longest digit strings compared.
MaxDigits == 3

\* '0', '1', '7' and '9'
DigitChars == {48, 49, 55, 57}

DigitPkgs == {Pkg(0, Str(s), NullStr, 0) : s \in Strings(DigitChars, MaxDigits)}

InitDigits ==
    /\ pkgA \in DigitPkgs
    /\ pkgB \in DigitPkgs
    /\ pkgC = NoPkg
    /\ cop = ""
    /\ cres = 0
    /\ tres = <<0, 0, 0>>
    /\ cpc = "idle"

DigitsOnly(s) == \A i \in 1..Len(s) : isdigit(s[i])

\* The number a string of digits denotes.
RECURSIVE Number(_)
Number(s) ==
    IF s = <<>> THEN 0
    ELSE 10 * Number(SubSeq(s, 1, Len(s) - 1)) + (s[Len(s)] - 48)

\* C23: for two strings that consist only of digits the sign of verrevcmp
\* is the sign of the numeric comparison of the numbers they denote:
\* leading zeros do not count, the longer zero-stripped run is the greater,
\* and for equal lengths the first differing digit decides.
C23_NumericOrder ==
    (cpc = "verrevcmp" /\ DigitsOnly(pkgA.version.s) /\ DigitsOnly(pkgB.version.s)) =>
        Sign(cres) = Sign(Number(pkgA.version.s) - Number(pkgB.version.s))

\* 007 was compared with 7 and found equal.
C23_Witness ==
    /\ cpc = "verrevcmp"
    /\ pkgA.version.s = <<48, 48, 55>>
    /\ pkgB.version.s = <<55>>
    /\ cres = 0

(***************************************************************************)
(* Sequences of pkg_get_installed_files and pkg_free_installed_files       *)
(***************************************************************************)
\* The longest sequence of calls on the package.
MaxCalls == 4

\* One call in the history: the function, whether it returned a list, which
\* list pkg->installed_files points to afterwards (0 for NULL) and
\* installed_files_ref_cnt afterwards.
CallEvent(op, ok, id, cnt) == [op |-> op, ok |-> ok, id |-> id, cnt |-> cnt]

CachePkgs ==
    {FilePkg(s, {}, d, l) : s \in {"SS_INSTALLED", "SS_NOT_INSTALLED"},
                            d \in {NULL, "root"}, l \in {NULL, "f.opk"}}

IdleRef ==
    /\ gpkg = FilePkg("SS_NOT_INSTALLED", {}, NULL, NULL)
    /\ gnames = <<>>
    /\ glist = NoListFile
    /\ gid = 0
    /\ gtrace = <<>>
    /\ gderef = FALSE
    /\ gpc = "idle"

\* A package fresh from pkg_init and the parser: no list cached, count 0.
InitRef ==
    /\ gpkg \in CachePkgs
    /\ gnames \in DataNames
    /\ gpkg.local_filename = NULL => gnames = <<>>
    /\ glist \in {NoListFile, ListFile(<<Line(PathA)>>)}
    /\ gpkg.dest = NULL => glist = NoListFile
    /\ gid = 0
    /\ gtrace = <<>>
    /\ gderef = FALSE
    /\ gpc = "running"

\* One call pkg_get_installed_files(pkg).
PkgGetInstalledFiles ==
    /\ gpc = "running"
    /\ Len(gtrace) < MaxCalls
    /\ \E e \in Envs :
         LET r == pkg_get_installed_files(gpkg, e, gnames, glist)
             id == IF r.how = "cached" THEN gid
                   ELSE IF r.pkg.installed_files.alloc THEN Len(gtrace) + 1
                   ELSE 0
         IN /\ gpkg' = r.pkg
            /\ gid' = id
            /\ gderef' = (gderef \/ r.deref)
            /\ gpc' = IF r.crash THEN "crashed" ELSE "running"
            /\ gtrace' = Append(gtrace,
                                CallEvent("get", r.ret.alloc /\ ~r.crash, id,
                                          r.pkg.installed_files_ref_cnt))
    /\ UNCHANGED <<gnames, glist>>
    /\ UNCHANGED <<verifyVars, cmpVars, mergeVars, fileVars, statusVars, runVars, tmpVars, saveVars>>

\* One call pkg_free_installed_files(pkg).
PkgFreeInstalledFiles ==
    /\ gpc = "running"
    /\ Len(gtrace) < MaxCalls
    /\ LET q == pkg_free_installed_files(gpkg)
           id == IF q.installed_files.alloc THEN gid ELSE 0
       IN /\ gpkg' = q
          /\ gid' = id
          /\ gtrace' = Append(gtrace,
                              CallEvent("free", TRUE, id,
                                        q.installed_files_ref_cnt))
    /\ UNCHANGED <<gnames, glist, gderef, gpc>>
    /\ UNCHANGED <<verifyVars, cmpVars, mergeVars, fileVars, statusVars, runVars, tmpVars, saveVars>>

\* The number of calls of op among the first k calls.
RECURSIVE CallCount(_, _)
CallCount(op, k) ==
    IF k = 0 THEN 0
    ELSE CallCount(op, k - 1) + (IF gtrace[k].op = op THEN 1 ELSE 0)

\* installed_files_ref_cnt before call k.
CountBefore(k) == IF k = 1 THEN 0 ELSE gtrace[k - 1].cnt

\* Every get succeeded and no prefix has more frees than gets.
BalancedCalls ==
    /\ \A k \in 1..Len(gtrace) : gtrace[k].ok
    /\ \A k \in 1..Len(gtrace) : CallCount("free", k) <= CallCount("get", k)

\* C24: in a sequence of gets and frees on one package in which every get
\* succeeds and no prefix has more frees than gets, the cached list is kept
\* while installed_files_ref_cnt is positive (a get made while the count is
\* positive returns the list already cached), and the list is purged and
\* installed_files is NULL exactly when the count is back at 0.
C24_CacheFollowsCount ==
    BalancedCalls =>
        /\ gpkg.installed_files_ref_cnt =
               CallCount("get", Len(gtrace)) - CallCount("free", Len(gtrace))
        /\ gpkg.installed_files.alloc <=> gpkg.installed_files_ref_cnt > 0
        /\ (gid # 0) <=> gpkg.installed_files.alloc
        /\ \A k \in 1..Len(gtrace) :
              /\ gtrace[k].cnt > 0 <=> gtrace[k].id # 0
              /\ CountBefore(k) > 0 => gtrace[k].id \in {0, gtrace[k - 1].id}

\* Two gets returned the same list, and two frees later it is gone.
C24_Witness ==
    /\ BalancedCalls
    /\ Len(gtrace) = 4
    /\ gtrace[1].op = "get" /\ gtrace[2].op = "get"
    /\ gtrace[1].id = gtrace[2].id /\ gtrace[2].cnt = 2
    /\ gtrace[3].op = "free" /\ gtrace[3].id = gtrace[1].id
    /\ gtrace[4].op = "free" /\ gtrace[4].id = 0
    /\ ~gpkg.installed_files.alloc

\* C25: a call of pkg_get_installed_files that returns NULL leaves
\* installed_files_ref_cnt as it was before the call, so that whenever each
\* successful get so far has at most one free and no other free was made, a
\* positive count means installed_files is not NULL.
C25_FailedGetKeepsCount ==
    /\ \A k \in 1..Len(gtrace) :
          (gtrace[k].op = "get" /\ ~gtrace[k].ok /\ (k < Len(gtrace) \/ gpc = "running"))
              => gtrace[k].cnt = CountBefore(k)
    /\ (gpc = "running"
          /\ \A k \in 1..Len(gtrace) :
                CallCount("free", k)
                   <= Cardinality({i \in 1..k : gtrace[i].op = "get" /\ gtrace[i].ok}))
          => (gpkg.installed_files_ref_cnt > 0 => gpkg.installed_files.alloc)

\* C26: pkg_get_installed_files never reads a field of pkg->dest when
\* pkg->dest is NULL, whatever state_status, local_filename and the file
\* names are.
C26_NoNullDestRead ==
    gpkg.dest = NULL => ~gderef

(***************************************************************************)
(* pkg_write_changed_filelists                                             *)
(***************************************************************************)
\* pkg.c 1509-1516: the loop over the installed packages from package i of
\* the vector on; st is the return value, the packages and the .list files
\* so far.
RECURSIVE WriteChangedLoop(_, _, _, _, _, _)
WriteChangedLoop(vec, i, st, h, opens, visit) ==
    IF i > Len(vec) THEN st
    ELSE LET p == vec[i]
         IN IF "SF_FILELIST_CHANGED" \in st.pkgs[p].state_flag
            THEN LET w == pkg_write_filelist(st.pkgs[p], p, st.files[p], h,
                                             opens[p], visit)
                 IN WriteChangedLoop(vec, i + 1,
                        [ret |-> IF w.ret # 0 THEN -1 ELSE st.ret,
                         pkgs |-> [st.pkgs EXCEPT ![p] = w.pkg],
                         files |-> [st.files EXCEPT ![p] = w.file]],
                        h, opens, visit)
            ELSE WriteChangedLoop(vec, i + 1, st, h, opens, visit)

pkg_write_changed_filelists_IgnoreNoaction(ps, files, h, na, opens, visit) ==
    WriteChangedLoop(pkg_hash_fetch_all_installed(ps), 1,
                     [ret |-> 0, pkgs |-> ps, files |-> files], h, opens, visit)

\* pkg_write_changed_filelists(): the return value, the packages and the
\* .list files afterwards.
pkg_write_changed_filelists(ps, files, h, na, opens, visit) ==
    IF na THEN [ret |-> 0, pkgs |-> ps, files |-> files]
    ELSE WriteChangedLoop(pkg_hash_fetch_all_installed(ps), 1,
                          [ret |-> 0, pkgs |-> ps, files |-> files],
                          h, opens, visit)

IdleSave ==
    /\ noaction = FALSE
    /\ wopen = [p \in PkgIds |-> TRUE]
    /\ wpre = <<>>

\* At the end of a transaction: packages with a destination, installed or
\* not, with or without SF_FILELIST_CHANGED, an index over /a and /d/, and
\* .list files from before.
SaveKeys == {PathA, PathDSlash}
InitSave ==
    /\ fpkgs \in [PkgIds -> {FilePkg(s, fl, "root", NULL) :
                    s \in {"SS_INSTALLED", "SS_NOT_INSTALLED"},
                    fl \in {{}, {"SF_FILELIST_CHANGED"},
                            {"SF_FILELIST_CHANGED", "SF_HOLD"}}}]
    /\ list_files \in [PkgIds -> {NoListFile, ListFile(<<Line(PathL)>>)}]
    /\ data_names = [p \in PkgIds |-> <<>>]
    /\ \E keys \in SUBSET SaveKeys : file_hash \in [keys -> PkgIds]
    /\ fhow = [p \in PkgIds |-> "none"]
    /\ fsubject = 0
    /\ fret = 0
    /\ fpc = "idle"
    /\ noaction \in BOOLEAN
    /\ wopen \in [PkgIds -> BOOLEAN]
    /\ wpre = <<>>

\* One call pkg_write_changed_filelists().
PkgWriteChangedFilelists ==
    /\ fpc = "idle"
    /\ \E visit \in hash_table_foreach(file_hash) :
         LET r == pkg_write_changed_filelists(fpkgs, list_files, file_hash,
                                              noaction, wopen, visit)
         IN /\ fpkgs' = r.pkgs
            /\ list_files' = r.files
            /\ fret' = r.ret
    /\ wpre' = [pkgs |-> fpkgs, files |-> list_files]
    /\ fpc' = "saved"
    /\ UNCHANGED <<data_names, file_hash, fhow, fsubject, noaction, wopen>>
    /\ UNCHANGED <<verifyVars, cmpVars, mergeVars, statusVars, runVars, tmpVars, refVars>>

\* The packages pkg_write_changed_filelists had to write: installed, with
\* SF_FILELIST_CHANGED set before the call.
DueForWrite(p) ==
    /\ wpre.pkgs[p].state_status = "SS_INSTALLED"
    /\ "SF_FILELIST_CHANGED" \in wpre.pkgs[p].state_flag

\* The .list file of p holds one record for every key p owns, and no other.
ListWritten(p) ==
    /\ list_files[p].exists
    /\ Len(list_files[p].lines) = Cardinality(OwnedKeys(p))
    /\ ListedPaths(p) = {NoSlash(k) : k \in OwnedKeys(p)}

\* C27: SF_FILELIST_CHANGED is cleared exactly for the packages whose .list
\* file was written: with noaction off, each installed package that had the
\* flag and whose list file could be opened has its list written and the
\* flag cleared; one whose list file cannot be opened keeps flag and file
\* while the others are still written, and the function returns -1 exactly
\* when there is one; after a return of 0 no installed package has the
\* flag.  With noaction set the function returns 0, writes nothing and
\* changes no flag.
C27_FlagClearedIffWritten ==
    fpc = "saved" =>
        /\ noaction =>
              (fret = 0 /\ fpkgs = wpre.pkgs /\ list_files = wpre.files)
        /\ ~noaction =>
              /\ \A p \in PkgIds :
                    /\ (DueForWrite(p) /\ wopen[p]) =>
                          /\ ListWritten(p)
                          /\ fpkgs[p].state_flag =
                                wpre.pkgs[p].state_flag \ {"SF_FILELIST_CHANGED"}
                    /\ ~(DueForWrite(p) /\ wopen[p]) =>
                          /\ fpkgs[p] = wpre.pkgs[p]
                          /\ list_files[p] = wpre.files[p]
              /\ fret = (IF \E p \in PkgIds : DueForWrite(p) /\ ~wopen[p]
                         THEN -1 ELSE 0)
              /\ fret = 0 =>
                    \A p \in PkgIds :
                        fpkgs[p].state_status = "SS_INSTALLED" =>
                            "SF_FILELIST_CHANGED" \notin fpkgs[p].state_flag

\* The list of the first package could not be opened: it keeps the flag,
\* the second package is written all the same, and -1 is returned.
C27_Witness ==
    /\ fpc = "saved" /\ ~noaction /\ fret = -1
    /\ DueForWrite(1) /\ ~wopen[1]
    /\ "SF_FILELIST_CHANGED" \in fpkgs[1].state_flag
    /\ DueForWrite(2) /\ wopen[2]
    /\ "SF_FILELIST_CHANGED" \notin fpkgs[2].state_flag
    /\ OwnedKeys(2) = {PathDSlash}
    /\ ListedPaths(2) = {PathD}

(***************************************************************************)
(* pkg_merge: what it leaves alone                                         *)
(***************************************************************************)
\* Two records of the same package as pkg_hash merges them: they compare
\* equal in version and revision, yet the second spells them differently
\* ("1.00-r01" against "1.0-r1"); their states differ.
InitMergeState ==
    /\ \E part \in ListParts \cup {"dest", "arch_priority", "priority"} :
         \E b1 \in BasePkgs(1), b2 \in BasePkgs(2) :
           \E p1 \in Variants(part, b1, 1), p2 \in Variants(part, b2, 2) :
             pk = <<p1, [p2 EXCEPT !.version = "1.00", !.revision = "r01"]>>
    /\ pre = pk
    /\ hist = <<>>
    /\ verbose_status_file \in BOOLEAN

\* The identity and the state of a record.
IdentityFields == {"name", "epoch", "version", "revision"}
StateFields == {"state_want", "state_flag", "state_status"}

\* C28: pkg_merge(old, new) leaves name, epoch, version, revision,
\* state_want, state_flag and state_status of old as they were, and
\* pkg_merge(p, p) changes no field of any record.
C28_IdentityAndStateKept ==
    Merged =>
        /\ \A f \in IdentityFields \cup StateFields :
              pk[LastOld][f] = pre[LastOld][f]
        /\ LastOld = LastNew => pk = pre

\* After pkg_merge(p, p), a merge of the installed record into the one that
\* is not installed and spells the version differently changed that record.
C28_Witness ==
    /\ Len(hist) = 2
    /\ hist[1] = <<1, 1>>
    /\ hist[2] = <<2, 1>>
    /\ pre[2].state_status # pre[1].state_status
    /\ pre[2].version # pre[1].version
    /\ pk[2] # pre[2]
    /\ pk[2].state_status = "SS_NOT_INSTALLED"

(***************************************************************************)
(* Flag words written in any order                                         *)
(***************************************************************************)
\* The longest list of flag names parsed.
MaxFlags == 3

\* Lists of distinct entries of pkg_state_flag_map, in any order.
FlagLists ==
    {l \in SeqsUpTo(1..Len(pkg_state_flag_map), MaxFlags) :
        /\ l # <<>>
        /\ \A i, j \in 1..Len(l) : i # j => l[i] # l[j]}

\* The names of the entries, separated by commas.
RECURSIVE JoinNames(_)
JoinNames(l) ==
    IF Len(l) = 1 THEN pkg_state_flag_map[l[1]].str
    ELSE pkg_state_flag_map[l[1]].str \o <<",">> \o JoinNames(Tail(l))

FlagsOf(l) == UNION {pkg_state_flag_map[l[i]].value : i \in 1..Len(l)}

\* A Status line as a user or another tool may have written it: the flags
\* of the package named in any order.
InitFlagList ==
    /\ \E l \in FlagLists :
         /\ spkg = [state_want |-> "SW_INSTALL", state_flag |-> FlagsOf(l),
                    state_status |-> "SS_INSTALLED"]
         /\ status_words = [StatusWords(spkg) EXCEPT !.flag = JoinNames(l)]
    /\ sparsed = [state_want |-> "SW_UNKNOWN", state_flag |-> sf_OK,
                  state_status |-> "SS_NOT_INSTALLED"]
    /\ spc = "formatted"

FlagMapNames == {pkg_state_flag_map[i].str : i \in 1..Len(pkg_state_flag_map)}

\* The flag the map gives to a name.
FlagOfName(name) ==
    (CHOOSE m \in {pkg_state_flag_map[i] : i \in 1..Len(pkg_state_flag_map)} :
        m.str = name).value

\* C29: for a comma-separated list of distinct recognised flag names, in
\* any order, pkg_state_flag_from_str returns the union (bitwise OR) of all
\* the flags listed.
C29_AnyOrder ==
    LET pieces == Split(status_words.flag, <<>>)
    IN (/\ spc = "parsed"
        /\ \A i \in 1..Len(pieces) : pieces[i] \in FlagMapNames
        /\ \A i, j \in 1..Len(pieces) : i # j => pieces[i] # pieces[j])
       => sparsed.state_flag = UNION {FlagOfName(pieces[i]) : i \in 1..Len(pieces)}

(***************************************************************************)
(* pkg_name_version_and_architecture_compare                               *)
(***************************************************************************)
\* The highest arch_priority among the packages sorted.
MaxArch == 2

\* strcmp(s, t) from character i on: the difference of the first two
\* characters that differ, 0 when both strings end.
RECURSIVE StrcmpFrom(_, _, _)
StrcmpFrom(s, t, i) ==
    IF At(s, i) # At(t, i) THEN At(s, i) - At(t, i)
    ELSE IF At(s, i) = 0 THEN 0
    ELSE StrcmpFrom(s, t, i + 1)

strcmp(s, t) == StrcmpFrom(s, t, 1)

pkg_name_version_and_architecture_compare(a, b) ==
    IF a.name.null \/ b.name.null THEN 0
    ELSE LET namecmp == strcmp(a.name.s, b.name.s)
             vercmp == pkg_compare_versions(a, b)
         IN IF namecmp # 0 THEN namecmp
            ELSE IF vercmp # 0 THEN vercmp
            ELSE IF a.arch_priority = 0 \/ b.arch_priority = 0 THEN 0
            ELSE IF a.arch_priority > b.arch_priority THEN 1
            ELSE IF a.arch_priority < b.arch_priority THEN -1
            ELSE 0

\* The packages sorted: named "a" or "b" or without a name, version 1 or 2,
\* with or without force_reinstall, arch_priority 0 (an architecture that
\* is not configured) up to MaxArch.
SortedPkgs ==
    {[name |-> n, epoch |-> 0, version |-> Str(v), revision |-> NullStr,
      force_reinstall |-> f, arch_priority |-> a] :
        n \in {NullStr, Str(<<97>>), Str(<<98>>)}, v \in {<<49>>, <<50>>},
        f \in {0, 1}, a \in 0..MaxArch}

InitSort ==
    /\ pkgA \in SortedPkgs
    /\ pkgB \in SortedPkgs
    /\ pkgC \in SortedPkgs
    /\ cop = ""
    /\ cres = 0
    /\ tres = <<0, 0, 0>>
    /\ cpc = "idle"

\* The three comparisons a sort makes among three packages.
CompareNameVersionArch ==
    /\ cpc = "idle"
    /\ tres' = <<pkg_name_version_and_architecture_compare(pkgA, pkgB),
                 pkg_name_version_and_architecture_compare(pkgB, pkgC),
                 pkg_name_version_and_architecture_compare(pkgA, pkgC)>>
    /\ cres' = pkg_name_version_and_architecture_compare(pkgB, pkgA)
    /\ cpc' = "sorted"
    /\ UNCHANGED <<pkgA, pkgB, pkgC, cop>>
    /\ UNCHANGED <<verifyVars, mergeVars, fileVars, statusVars, runVars, tmpVars, refVars, saveVars>>

\* The sign name, then version, then arch_priority decide.
NameVersionArchSign(a, b) ==
    IF strcmp(a.name.s, b.name.s) # 0 THEN Sign(strcmp(a.name.s, b.name.s))
    ELSE IF pkg_compare_versions(a, b) # 0 THEN Sign(pkg_compare_versions(a, b))
    ELSE Sign(a.arch_priority - b.arch_priority)

\* C30: over packages that have a name,
\* pkg_name_version_and_architecture_compare is a consistent sort order: it
\* orders by name, then version, then arch_priority, it is antisymmetric,
\* and it is transitive for every triple of packages, packages with
\* arch_priority 0 included.
C30_ConsistentOrder ==
    (cpc = "sorted" /\ ~pkgA.name.null /\ ~pkgB.name.null /\ ~pkgC.name.null) =>
        /\ Sign(tres[1]) = NameVersionArchSign(pkgA, pkgB)
        /\ Sign(tres[1]) = -Sign(cres)
        /\ (tres[1] <= 0 /\ tres[2] <= 0) => tres[3] <= 0
        /\ (tres[1] = 0 /\ tres[2] = 0) => tres[3] = 0

(***************************************************************************)
(* Specifications                                                          *)
(***************************************************************************)
Init == InitVerify /\ IdleCmp /\ IdleMerge /\ IdleFiles /\ IdleStatus /\ IdleRun /\ IdleTmp /\ IdleRef /\ IdleSave

Next == PkgVerify

Spec == Init /\ [][Next]_vars

NextCmp == Verrevcmp \/ CompareNoReinstall \/ Compare \/ VersionSatisfied

InitSpecCmp == IdleVerify /\ InitCmp /\ IdleMerge /\ IdleFiles /\ IdleStatus /\ IdleRun /\ IdleTmp /\ IdleRef /\ IdleSave

SpecCmp == InitSpecCmp /\ [][NextCmp]_vars

NextTriple == CompareTriple

InitSpecTriple == IdleVerify /\ InitTriple /\ IdleMerge /\ IdleFiles /\ IdleStatus /\ IdleRun /\ IdleTmp /\ IdleRef /\ IdleSave

SpecTriple == InitSpecTriple /\ [][NextTriple]_vars

NextMerge == PkgMerge

InitSpecMerge == IdleVerify /\ IdleCmp /\ InitMerge /\ IdleFiles /\ IdleStatus /\ IdleRun /\ IdleTmp /\ IdleRef /\ IdleSave

SpecMerge == InitSpecMerge /\ [][NextMerge]_vars

NextCheck == PkgInfoPreinstallCheck

InitSpecCheck == IdleVerify /\ IdleCmp /\ IdleMerge /\ InitCheck /\ IdleStatus /\ IdleRun /\ IdleTmp /\ IdleRef /\ IdleSave

SpecCheck == InitSpecCheck /\ [][NextCheck]_vars

NextWrite == PkgWriteFilelist

InitSpecWrite == IdleVerify /\ IdleCmp /\ IdleMerge /\ InitWrite /\ IdleStatus /\ IdleRun /\ IdleTmp /\ IdleRef /\ IdleSave

SpecWrite == InitSpecWrite /\ [][NextWrite]_vars

NextStatus == FormatStatus \/ ParseStatus

InitSpecStatus == IdleVerify /\ IdleCmp /\ IdleMerge /\ IdleFiles /\ InitStatus /\ IdleRun /\ IdleTmp /\ IdleRef /\ IdleSave

SpecStatus == InitSpecStatus /\ [][NextStatus]_vars

NextRun == PkgRunScript

InitSpecRun == IdleVerify /\ IdleCmp /\ IdleMerge /\ IdleFiles /\ IdleStatus /\ InitRun /\ IdleTmp /\ IdleRef /\ IdleSave

SpecRun == InitSpecRun /\ [][NextRun]_vars

NextTmp == PkgInitFromFile \/ PkgGetInstalledFilesTemp

InitSpecTmp == IdleVerify /\ IdleCmp /\ IdleMerge /\ IdleFiles /\ IdleStatus /\ IdleRun /\ InitTmp /\ IdleRef /\ IdleSave

SpecTmp == InitSpecTmp /\ [][NextTmp]_vars

NextDigits == Verrevcmp

InitSpecDigits == IdleVerify /\ InitDigits /\ IdleMerge /\ IdleFiles /\ IdleStatus /\ IdleRun /\ IdleTmp /\ IdleRef /\ IdleSave

SpecDigits == InitSpecDigits /\ [][NextDigits]_vars

NextRef == PkgGetInstalledFiles \/ PkgFreeInstalledFiles

InitSpecRef == IdleVerify /\ IdleCmp /\ IdleMerge /\ IdleFiles /\ IdleStatus /\ IdleRun /\ IdleTmp /\ InitRef /\ IdleSave

SpecRef == InitSpecRef /\ [][NextRef]_vars

NextSave == PkgWriteChangedFilelists

InitSpecSave == IdleVerify /\ IdleCmp /\ IdleMerge /\ InitSave /\ IdleStatus /\ IdleRun /\ IdleTmp /\ IdleRef

SpecSave == InitSpecSave /\ [][NextSave]_vars

NextMergeState == PkgMerge

InitSpecMergeState == IdleVerify /\ IdleCmp /\ InitMergeState /\ IdleFiles /\ IdleStatus /\ IdleRun /\ IdleTmp /\ IdleRef /\ IdleSave

SpecMergeState == InitSpecMergeState /\ [][NextMergeState]_vars

NextFlags == ParseStatus

InitSpecFlags == IdleVerify /\ IdleCmp /\ IdleMerge /\ IdleFiles /\ InitFlagList /\ IdleRun /\ IdleTmp /\ IdleRef /\ IdleSave

SpecFlags == InitSpecFlags /\ [][NextFlags]_vars

NextSort == CompareNameVersionArch

InitSpecSort == IdleVerify /\ InitSort /\ IdleMerge /\ IdleFiles /\ IdleStatus /\ IdleRun /\ IdleTmp /\ IdleRef /\ IdleSave

SpecSort == InitSpecSort /\ [][NextSort]_vars

====
